---- MODULE Spec2Model ----
(***************************************************************************)
(* kleinanzeigen-bot: the bounded poll (Scraper.web_await), the element    *)
(* locator (Scraper.web_find / web_find_all) and the publish run           *)
(* (publish_ads / publish_ad).                                             *)
(*                                                                         *)
(* The specifications share the variables:                                 *)
(*   SpecPoll        one call of web_await with an arbitrary condition     *)
(*   SpecFind        one call of web_find / web_find_all                   *)
(*   Spec            one run of publish_ads                                *)
(*   SpecSelect      one call of web_select                                *)
(*   SpecShipping    one call of __set_shipping                            *)
(*   SpecAttributes  one call of __set_special_attributes                  *)
(*   SpecSteps       SpecShipping or SpecAttributes                        *)
(*   SpecValidate    one validation of an ad document                      *)
(*   SpecMerge       apply_defaults, called twice                          *)
(*   SpecSleep       one call of web_sleep                                 *)
(*   SpecLive        Spec or SpecPoll under fair scheduling                *)
(* Time is counted in ticks of 0.5 s, the poll's sleep interval.           *)
(***************************************************************************)
EXTENDS Integers, Sequences, FiniteSets, TLC

VARIABLES
    \* ---- Scraper.web_await ----
    wa_pc,                  \* "off" | "dispatch" | "entry" | "loop" | "sleep" | "returned" | "raised"
    timeout,                \* the timeout parameter, in ticks
    timeout_error_message,  \* the timeout_error_message parameter
    start_at,               \* loop.time() at entry
    now,                    \* loop.time()
    ex,                     \* the local ex of the current iteration
    calls,                  \* history: the outcome of every condition() invocation
    result,                 \* the value returned
    raised,                 \* the error raised
    \* ---- Scraper.web_find / web_find_all ----
    find_op,                \* "none" | "web_find" | "web_find_all"
    selector_type,          \* a member of By
    selector_value,
    \* ---- publish_ads / publish_ad ----
    pc,                     \* position in publish_ads / publish_ad
    files,                  \* the ad files on disk, in glob order
    config,                 \* the Config record
    ads,                    \* publish_ads' list of loaded AdPartial records
    idx,                    \* the index of the for loop's current ad
    ad,                     \* publish_ad's argument, the merged Ad
    browser,                \* whether the browser session exists
    tabs,                   \* number of open ad-form tabs
    login,                  \* check_logged_in's reads and result
    steps,                  \* history: the steps the current ad's workflow executed
    submit_lookups,         \* history: the controls the current ad's submit looked up,
                            \* as (control, found)
    captcha,                \* history: the current ad's challenge probe:
                            \* "none" | "absent" | "present" | "confirmed" | "error"
    ad_status,              \* history: per ad "pending" | "running" | "published" | "failed"
    error,                  \* the exception in flight or last caught
    url,                    \* scraper.page.url of the ad's tab
    ad_id,                  \* publish_ad's local ad_id
    extracted,              \* history: per ad the id publish_ad extracted (0: none)
    \* ---- Scraper.web_select ----
    sel_pc,                 \* "off" | "entry" | "located" | "returned" | "raised"
    sel_options,            \* the values of the control's <option/> elements
    sel_value,              \* the selected_value parameter
    selectedIndex,          \* element.selectedIndex (0-based, -1: none)
    sel_changes,            \* history: the change events dispatched on the control
    sel_error,              \* the error web_select raised
    \* ---- __set_shipping / __set_shipping_options ----
    sh_pc,                  \* position in __set_shipping / __set_shipping_options, then
                            \* in publish_ad: "description" | "except"
    sh_ad,                  \* the shipping fields of ad_cfg
    sh_selector,            \* history: what web_check saw of the commercial shipping
                            \* selector: "unchecked" | "absent" | "hidden" | "displayed"
    sh_radio,               \* the dialog: the size class whose radio is checked ("None": none)
    sh_checked,             \* the dialog: the packages whose control is checked
    sh_before,              \* history: sh_radio and sh_checked when the step began
    sh_clicks,              \* history: the controls clicked by the step, in order
    sh_missed,              \* history: the packages whose control was not found
    shipping_size,          \* __set_shipping_options' local
    shipping_packages,      \* __set_shipping_options' local
    to_be_clicked,          \* the rest of to_be_clicked_shipping_packages
    sh_error,               \* the error the step raised
    \* ---- AdPartial.model_validate ----
    v_pc,                   \* "off" | "entry" | "accepted" | "rejected"
    document,               \* the data of the ad file
    v_errors,               \* the errors of the ValidationError
    \* ---- dicts.apply_defaults ----
    m_pc,                   \* "off" | "entry" | "once" | "twice" | "raised"
    m_target,               \* the target mapping before the first merge
    m_defaults,             \* the defaults mapping
    m_ignore,               \* the ignore predicate
    m_override,             \* the override predicate
    m_once,                 \* the result of apply_defaults(target, defaults)
    m_twice,                \* the result of merging the defaults into m_once again
    \* ---- __set_special_attributes / __set_condition ----
    at_pc,                  \* position in __set_special_attributes / __set_condition, then
                            \* in publish_ad: "price" | "except"
    at_attributes,          \* ad_cfg.special_attributes
    at_controls,            \* the page: per key the kind of the form control whose name
                            \* contains it ("absent": none)
    at_rest,                \* the items the for loop has not finished
    at_done,                \* history: the interactions applied, as (key, control)
    at_missing,             \* history: the controls that were not found, as (key, control)
    at_error,               \* the error the step raised
    \* ---- Scraper.web_sleep ----
    sl_pc,                  \* "off" | "entry" | "sleeping" | "returned" | "raised"
    min_ms,                 \* the min_ms parameter
    max_ms,                 \* the max_ms parameter
    duration,               \* web_sleep's local duration, in ms
    sl_error                \* the error web_sleep raised

pollVars == <<wa_pc, timeout, timeout_error_message, start_at, now, ex, calls, result, raised>>
findVars == <<find_op, selector_type, selector_value>>
runVars == <<pc, files, config, ads, idx, ad, browser, tabs, login, steps, submit_lookups, captcha, ad_status,
             error, url, ad_id, extracted>>
selVars == <<sel_pc, sel_options, sel_value, selectedIndex, sel_changes, sel_error>>
shipVars == <<sh_pc, sh_ad, sh_selector, sh_radio, sh_checked, sh_before, sh_clicks, sh_missed, shipping_size,
              shipping_packages, to_be_clicked, sh_error>>
valVars == <<v_pc, document, v_errors>>
mergeVars == <<m_pc, m_target, m_defaults, m_ignore, m_override, m_once, m_twice>>
attrVars == <<at_pc, at_attributes, at_controls, at_rest, at_done, at_missing, at_error>>
sleepVars == <<sl_pc, min_ms, max_ms, duration, sl_error>>
unitVars == <<selVars, shipVars, valVars, mergeVars, attrVars, sleepVars>>
exceptSel == <<pollVars, findVars, runVars, shipVars, valVars, mergeVars, attrVars, sleepVars>>
exceptShip == <<pollVars, findVars, runVars, selVars, valVars, mergeVars, attrVars, sleepVars>>
exceptVal == <<pollVars, findVars, runVars, selVars, shipVars, mergeVars, attrVars, sleepVars>>
exceptMerge == <<pollVars, findVars, runVars, selVars, shipVars, valVars, attrVars, sleepVars>>
exceptAttr == <<pollVars, findVars, runVars, selVars, shipVars, valVars, mergeVars, sleepVars>>
exceptSleep == <<pollVars, findVars, runVars, selVars, shipVars, valVars, mergeVars, attrVars>>
vars == <<pollVars, findVars, runVars, unitVars>>

----------------------------------------------------------------------------
(* Bounds *)
MaxTimeout == 2      \* largest timeout, in ticks
MaxCheckTicks == 1   \* longest duration of one condition() invocation, in ticks
MaxElems == 2        \* most elements a query matches

----------------------------------------------------------------------------
(* Values and errors *)

Val(t, n) == [t |-> t, n |-> n]
NoValue == Val("unset", 0)
None == Val("None", 0)
Element == Val("Element", 1)
ElemList(n) == Val("list", n)

\* Python truthiness of the values a condition yields
Falsy == {None, Val("bool", 0), ElemList(0)}
PollValues == {None, Val("bool", 0), ElemList(0), Val("bool", 1), Element, ElemList(1)}

IsTruthyNotNone(v) == v # None
\* scraper.py:111  `if result:`
IsTruthy(v) == v \notin Falsy

Err(kind, text, sel, t) == [kind |-> kind, text |-> text, selector |-> sel, timeout |-> t]
NoError == Err("None", "", "", 0)
NoMessage == [text |-> "", selector |-> "", timeout |-> 0]
Msg(text, sel, t) == [text |-> text, selector |-> sel, timeout |-> t]

\* errors a condition may raise (subclasses of Exception)
CheckErrors == {Err("TimeoutError", "inner", "", 0), Err("ProtocolException", "boom", "", 0)}

Returns(v) == [raises |-> FALSE, value |-> v, error |-> NoError]
Raises(e) == [raises |-> TRUE, value |-> NoValue, error |-> e]
PollOutcomes == {Returns(v) : v \in PollValues} \cup {Raises(e) : e \in CheckErrors}

\* scraper.py:118  timeout_error_message or f"Condition not met within {timeout} seconds"
GenericTimeoutError(m, t) ==
    IF m # NoMessage
    THEN Err("TimeoutError", m.text, m.selector, m.timeout)
    ELSE Err("TimeoutError", "Condition not met within", "", t)

----------------------------------------------------------------------------
\* the publish run is not started
RunOff ==
    /\ pc = "off"
    /\ files = <<>>
    /\ config = [username |-> <<>>, defaults |-> "off"]
    /\ ads = <<>>
    /\ idx = 0
    /\ ad = "off"
    /\ browser = FALSE
    /\ tabs = 0
    /\ login = "off"
    /\ steps = <<>>
    /\ submit_lookups = <<>>
    /\ captcha = "none"
    /\ ad_status = <<>>
    /\ error = NoError
    /\ url = "off"
    /\ ad_id = 0
    /\ extracted = <<>>

\* web_await, web_find and web_find_all are not called
PollFindOff ==
    /\ wa_pc = "off"
    /\ timeout = 0
    /\ timeout_error_message = NoMessage
    /\ start_at = 0
    /\ now = 0
    /\ ex = NoError
    /\ calls = <<>>
    /\ result = NoValue
    /\ raised = NoError
    /\ find_op = "none"
    /\ selector_type = "none"
    /\ selector_value = ""

\* web_select is not called
SelectOff ==
    /\ sel_pc = "off"
    /\ sel_options = <<>>
    /\ sel_value = ""
    /\ selectedIndex = -1
    /\ sel_changes = 0
    /\ sel_error = NoError

ShErr(kind, text, options) == [kind |-> kind, text |-> text, options |-> options]
NoShErr == ShErr("None", "", <<>>)

\* __set_shipping is not called
ShippingOff ==
    /\ sh_pc = "off"
    /\ sh_ad = "off"
    /\ sh_selector = "unchecked"
    /\ sh_radio = "None"
    /\ sh_checked = {}
    /\ sh_before = "off"
    /\ sh_clicks = <<>>
    /\ sh_missed = {}
    /\ shipping_size = "None"
    /\ shipping_packages = <<>>
    /\ to_be_clicked = <<>>
    /\ sh_error = NoShErr

\* AdPartial.model_validate is not called
ValidateOff ==
    /\ v_pc = "off"
    /\ document = "off"
    /\ v_errors = {}

\* apply_defaults is not called
MergeOff ==
    /\ m_pc = "off"
    /\ m_target = <<>>
    /\ m_defaults = <<>>
    /\ m_ignore = "off"
    /\ m_override = "off"
    /\ m_once = "off"
    /\ m_twice = "off"

\* __set_special_attributes is not called
AttributesOff ==
    /\ at_pc = "off"
    /\ at_attributes = "off"
    /\ at_controls = "off"
    /\ at_rest = <<>>
    /\ at_done = <<>>
    /\ at_missing = {}
    /\ at_error = NoError

\* web_sleep is not called
SleepOff ==
    /\ sl_pc = "off"
    /\ min_ms = 0
    /\ max_ms = 0
    /\ duration = 0
    /\ sl_error = NoError

\* the operations modelled on their own are not called
UnitsOff == SelectOff /\ ShippingOff /\ ValidateOff /\ MergeOff /\ AttributesOff /\ SleepOff

----------------------------------------------------------------------------
(* Scraper.web_await *)

ExKeptAcrossIterations(prev) == prev
\* scraper.py:107  ex = None, at the start of every iteration
ExAtIterationStart(prev) == NoError

\* scraper.py:108-114  the try block's effect on ex
ExAfterCheck(ex0, outcome) == IF outcome.raises THEN outcome.error ELSE ex0

\* scraper.py:115  loop.time() - start_at > timeout
DeadlinePassed(t, s, to) == t - s > to

DeadlineErrorAlwaysGeneric(e, m, to) == GenericTimeoutError(m, to)
\* scraper.py:116-118  raise ex if ex else TimeoutError(...)
DeadlineError(e, m, to) == IF e # NoError THEN e ELSE GenericTimeoutError(m, to)

\* scraper.py:102-103
WebAwaitEnter ==
    /\ wa_pc = "entry"
    /\ start_at' = now
    /\ wa_pc' = "loop"
    /\ UNCHANGED <<timeout, timeout_error_message, now, ex, calls, result, raised, findVars, runVars, unitVars>>

WebAwaitIterationDeadlineFirst(outcome, d) ==
    /\ wa_pc = "loop"
    /\ now' = now + d
    /\ calls' = Append(calls, outcome)
    /\ LET ex0 == ExAtIterationStart(ex)
           ex1 == ExAfterCheck(ex0, outcome)
       IN  IF ~outcome.raises /\ IsTruthy(outcome.value) /\ ~DeadlinePassed(now', start_at, timeout)
           THEN /\ result' = outcome.value
                /\ wa_pc' = "returned"
                /\ ex' = ex0
                /\ raised' = raised
           ELSE /\ ex' = ex1
                /\ result' = result
                /\ IF DeadlinePassed(now', start_at, timeout)
                   THEN /\ raised' = DeadlineError(ex1, timeout_error_message, timeout)
                        /\ wa_pc' = "raised"
                   ELSE /\ raised' = raised
                        /\ wa_pc' = "sleep"
    /\ UNCHANGED <<timeout, timeout_error_message, start_at, findVars, runVars, unitVars>>

\* scraper.py:105-118  one iteration: condition() yields `outcome` after d ticks
WebAwaitIteration(outcome, d) ==
    /\ wa_pc = "loop"
    /\ now' = now + d
    /\ calls' = Append(calls, outcome)
    /\ LET ex0 == ExAtIterationStart(ex)
           ex1 == ExAfterCheck(ex0, outcome)
       IN  IF ~outcome.raises /\ IsTruthy(outcome.value)
           THEN /\ result' = outcome.value
                /\ wa_pc' = "returned"
                /\ ex' = ex0
                /\ raised' = raised
           ELSE /\ ex' = ex1
                /\ result' = result
                /\ IF DeadlinePassed(now', start_at, timeout)
                   THEN /\ raised' = DeadlineError(ex1, timeout_error_message, timeout)
                        /\ wa_pc' = "raised"
                   ELSE /\ raised' = raised
                        /\ wa_pc' = "sleep"
    /\ UNCHANGED <<timeout, timeout_error_message, start_at, findVars, runVars, unitVars>>

\* scraper.py:119  await self.page.sleep(0.5)
WebAwaitSleep ==
    /\ wa_pc = "sleep"
    /\ now' = now + 1
    /\ wa_pc' = "loop"
    /\ UNCHANGED <<timeout, timeout_error_message, start_at, ex, calls, result, raised, findVars, runVars, unitVars>>

\* an arbitrary condition
PollCheck == \E o \in PollOutcomes, d \in 0..MaxCheckTicks : WebAwaitIteration(o, d)

InitPoll ==
    /\ wa_pc = "entry"
    /\ timeout \in 0..MaxTimeout
    /\ timeout_error_message \in {NoMessage, Msg("custom", "", 0)}
    /\ start_at = 0
    /\ now = 0
    /\ ex = NoError
    /\ calls = <<>>
    /\ result = NoValue
    /\ raised = NoError
    /\ find_op = "none"
    /\ selector_type = "none"
    /\ selector_value = ""
    /\ RunOff
    /\ UnitsOff

NextPoll == WebAwaitEnter \/ PollCheck \/ WebAwaitSleep

SpecPoll == InitPoll /\ [][NextPoll]_vars

----------------------------------------------------------------------------
(* Scraper.web_find / web_find_all *)

\* scraper.py:34-40
By == {"ID", "CLASS_NAME", "CSS_SELECTOR", "TAG_NAME", "TEXT", "XPATH"}

\* scraper.py:203-237  the cases of web_find's match
FindKinds == {"ID", "CLASS_NAME", "TAG_NAME", "CSS_SELECTOR", "TEXT", "XPATH"}
\* scraper.py:248-276  the cases of web_find_all's match
FindAllKinds == {"CLASS_NAME", "CSS_SELECTOR", "TAG_NAME", "TEXT", "XPATH"}

SupportedKinds(op) == IF op = "web_find" THEN FindKinds ELSE FindAllKinds

\* the f-strings of scraper.py:209-237 and 254-276
FindMessageText(op, kind) ==
    IF op = "web_find"
    THEN CASE kind = "ID" -> "No HTML element found with ID"
           [] kind = "CLASS_NAME" -> "No HTML element found with CSS class"
           [] kind = "TAG_NAME" -> "No HTML element found of tag"
           [] kind = "CSS_SELECTOR" -> "No HTML element found using CSS selector"
           [] kind = "TEXT" -> "No HTML element found containing text"
           [] kind = "XPATH" -> "No HTML element found using XPath"
    ELSE CASE kind = "CLASS_NAME" -> "No HTML elements found with CSS class"
           [] kind = "CSS_SELECTOR" -> "No HTML elements found using CSS selector"
           [] kind = "TAG_NAME" -> "No HTML elements found of tag"
           [] kind = "TEXT" -> "No HTML elements found containing text"
           [] kind = "XPATH" -> "No HTML elements found using XPath"

FindMessageWithoutSelector(op, kind, sel, to) == Msg(FindMessageText(op, kind), "", to)
FindMessage(op, kind, sel, to) == Msg(FindMessageText(op, kind), sel, to)

\* what the page's query yields when n elements match:
\* query_selector / find_element_by_text: an element or None;
\* query_selector_all / find_elements_by_text: a list
QueryOutcome(op, n) ==
    IF op = "web_find"
    THEN Returns(IF n > 0 THEN Element ELSE None)
    ELSE Returns(ElemList(n))

\* scraper.py:203-239 and 248-278  the match on selector_type
FindDispatch ==
    /\ wa_pc = "dispatch"
    /\ IF selector_type \in SupportedKinds(find_op)
       THEN /\ timeout_error_message' = FindMessage(find_op, selector_type, selector_value, timeout)
            /\ wa_pc' = "entry"
            /\ raised' = raised
       ELSE /\ raised' = Err("AssertionError", "Unsupported selector type", selector_type, 0)
            /\ wa_pc' = "raised"
            /\ timeout_error_message' = timeout_error_message
    /\ UNCHANGED <<timeout, start_at, now, ex, calls, result, findVars, runVars, unitVars>>

\* an error of the query itself (the page is navigating, the connection drops)
QueryError == Err("ProtocolException", "boom", "", 0)

\* the lambdas of scraper.py:207-274: the query answers, or raises
FindCheck ==
    \E d \in 0..MaxCheckTicks :
        \/ \E n \in 0..MaxElems : WebAwaitIteration(QueryOutcome(find_op, n), d)
        \/ WebAwaitIteration(Raises(QueryError), d)

InitFind ==
    /\ wa_pc = "dispatch"
    /\ timeout \in 0..MaxTimeout
    /\ timeout_error_message = NoMessage
    /\ start_at = 0
    /\ now = 0
    /\ ex = NoError
    /\ calls = <<>>
    /\ result = NoValue
    /\ raised = NoError
    /\ find_op \in {"web_find", "web_find_all"}
    /\ selector_type \in By
    /\ selector_value \in {"postad-title", "input[type=file]"}
    /\ RunOff
    /\ UnitsOff

NextFind == FindDispatch \/ WebAwaitEnter \/ FindCheck \/ WebAwaitSleep

SpecFind == InitFind /\ [][NextFind]_vars

----------------------------------------------------------------------------
(* Ad and Config records *)

\* Optional list / mapping values: None is distinct from the empty one
NoneList == [none |-> TRUE, items |-> <<>>]
List(s) == [none |-> FALSE, items |-> s]
NoneDict == [none |-> TRUE, items |-> <<>>]
Dict(s) == [none |-> FALSE, items |-> s]

\* ad_model.py:48-65  AdPartial; "None" is None, id 0 is None
AdRecord(id, category, price_type, shipping_type, shipping_costs, shipping_options, special_attributes, images) ==
    [id |-> id, category |-> category, price_type |-> price_type,
     shipping_type |-> shipping_type, shipping_costs |-> shipping_costs,
     shipping_options |-> shipping_options, special_attributes |-> special_attributes,
     images |-> images]

NoAd == AdRecord(0, "None", "None", "None", "None", NoneList, NoneDict, <<>>)

\* the ad files of the run: valid AdPartial documents
PlainAd == AdRecord(0, "161/176", "None", "PICKUP", "None", NoneList, NoneDict, <<>>)
RepublishedAd == AdRecord(7, "", "FIXED", "None", "None", List(<<"Hermes_S", "DHL_2", "DHL_2">>),
                          NoneDict, <<"a.jpg">>)
ConditionAd == AdRecord(0, "None", "None", "SHIPPING", "4.95", List(<<>>),
                        Dict(<<<<"condition_s", "new">>>>), <<>>)
BrandAd == AdRecord(0, "161/176", "None", "NOT_APPLICABLE", "None", NoneList,
                    Dict(<<<<"condition_s", "ok">>, <<"brand_s", "x">>>>), <<"a.jpg">>)
MixedSizeAd == AdRecord(0, "161/176", "None", "SHIPPING", "None", List(<<"DHL_2", "DHL_10">>),
                        NoneDict, <<>>)
\* an ad file with a blank shipping option: not a valid AdPartial document
BlankOptionAd == AdRecord(0, "161/176", "None", "SHIPPING", "None", List(<<"DHL_2", " ">>),
                          NoneDict, <<>>)
AdPool == {PlainAd, RepublishedAd, ConditionAd, BrandAd, MixedSizeAd, BlankOptionAd}

\* ad_model.py:40-65, 79-88  AdPartial.model_validate: the literals of the
\* types, the non-blank shipping options and the price rule (price is a
\* required int, so GIVE_AWAY is always rejected)
AdPartialIsValid(a) ==
    /\ a.price_type \in {"None", "FIXED", "NEGOTIABLE", "NOT_APPLICABLE"}
    /\ a.shipping_type \in {"None", "PICKUP", "SHIPPING", "NOT_APPLICABLE"}
    /\ a.shipping_options.none
       \/ \A i \in 1..Len(a.shipping_options.items) : a.shipping_options.items[i] \notin {"", " "}

\* config_model.py:13-21  AdDefaults
DefaultsRecord(category, special_attributes) ==
    [price_type |-> "NEGOTIABLE", shipping_type |-> "SHIPPING", category |-> category,
     special_attributes |-> special_attributes, shipping_costs |-> "None",
     shipping_options |-> NoneList]
AdDefaultsPool == {DefaultsRecord("None", NoneDict), DefaultsRecord("210", Dict(<<>>))}

----------------------------------------------------------------------------
(* dicts.apply_defaults as used by AdPartial.to_ad *)

\* ad_model.py:103  override = lambda _, v: not isinstance(v, list) and v in {None, ""}
OverrideScalar(v) == v \in {"None", ""}

\* dicts.py:25-37 for a key holding a str or None in target and defaults
MergeScalar(target, default) == IF OverrideScalar(target) THEN default ELSE target

\* dicts.py:25-37 for a key holding a list or None: a list is never overridden
MergeList(target, default) == IF target.none THEN default ELSE target

RECURSIVE MergeItems(_, _)
\* dicts.py:25-37 on two mappings of str values: keys of the defaults that
\* the target lacks are added unless ignored (ad_model.py:102), values ""
\* are overridden
MergeItems(titems, ditems) ==
    IF ditems = <<>> THEN titems
    ELSE LET k == Head(ditems)[1]
             v == Head(ditems)[2]
             has == \E i \in 1..Len(titems) : titems[i][1] = k
             merged == IF has
                       THEN [i \in 1..Len(titems) |->
                               IF titems[i][1] = k /\ OverrideScalar(titems[i][2])
                               THEN <<k, v>> ELSE titems[i]]
                       ELSE IF k = "description" THEN titems ELSE Append(titems, <<k, v>>)
         IN  MergeItems(merged, Tail(ditems))

\* dicts.py:27-35 for special_attributes: both mappings recurse; a mapping in
\* the target against None in the defaults reaches override(), whose
\* `v in {None, ""}` hashes the mapping and raises TypeError
MergeDictRaises(target, default) == ~target.none /\ default.none
MergeDict(target, default) ==
    IF target.none THEN default
    ELSE IF default.none THEN target
    ELSE Dict(MergeItems(target.items, default.items))

\* ad_model.py:79-88 and 109-112  Ad.model_validate of the merged record
AdIsValid(a) ==
    /\ a.category # "None"
    /\ a.price_type # "None"
    /\ a.shipping_type # "None"
    /\ a.price_type # "GIVE_AWAY"

ToAdResult(e, a) == [error |-> e, ad |-> a]

\* ad_model.py:90-105  AdPartial.to_ad
ToAd(partial, defaults) ==
    IF MergeDictRaises(partial.special_attributes, defaults.special_attributes)
    THEN ToAdResult(Err("TypeError", "unhashable type: 'dict'", "", 0), NoAd)
    ELSE LET merged == [partial EXCEPT
                 !.price_type = MergeScalar(@, defaults.price_type),
                 !.shipping_type = MergeScalar(@, defaults.shipping_type),
                 !.category = MergeScalar(@, defaults.category),
                 !.special_attributes = MergeDict(@, defaults.special_attributes),
                 !.shipping_costs = MergeScalar(@, defaults.shipping_costs),
                 !.shipping_options = MergeList(@, defaults.shipping_options)]
         IN  IF AdIsValid(merged)
             THEN ToAdResult(NoError, merged)
             ELSE ToAdResult(Err("ValidationError", "Ad", "", 0), NoAd)

----------------------------------------------------------------------------
(* Scraper.check_logged_in *)

\* str.lower() on the characters of the identity texts
Lower(c) == CASE c = "A" -> "a" [] c = "B" -> "b" [] OTHER -> c
LowerStr(s) == [i \in 1..Len(s) |-> Lower(s[i])]

\* the `in` operator of str
Contains(hay, needle) ==
    \E k \in 0..(Len(hay) - Len(needle)) :
        \A i \in 1..Len(needle) : hay[k + i] = needle[i]

ContainsCaseSensitive(username, user_info) == Contains(user_info, username)
\* scraper.py:65, 70  username.lower() in user_info.lower()
UsernameIn(username, user_info) == Contains(LowerStr(user_info), LowerStr(username))

\* a page region: absent (web_text times out) or present with its visible text
Absent == [present |-> FALSE, text |-> <<>>]
Present(t) == [present |-> TRUE, text |-> t]
IdentityTexts == {<<>>, <<"a", "b">>, <<"A", "B">>, <<"x", "a", "B", "y">>, <<"b", "a">>, <<"a">>}
Regions == {Absent} \cup {Present(t) : t \in IdentityTexts}
Usernames == {<<"A", "b">>, <<"a", "b">>}

ConsultFallbackAlways(primary, fallback) == TRUE
\* scraper.py:67-68  the fallback region is read in the handler of the
\* primary lookup's TimeoutError
ConsultFallback(primary, fallback) == ~primary.present

\* scraper.py:62-74
CheckLoggedIn(username, primary, fallback) ==
    IF primary.present /\ UsernameIn(username, primary.text) THEN TRUE
    ELSE IF ConsultFallback(primary, fallback)
         THEN fallback.present /\ UsernameIn(username, fallback.text)
         ELSE FALSE

LoginRecord(primary, fallback, ok) == [primary |-> primary, fallback |-> fallback, ok |-> ok]
NoLogin == LoginRecord(Absent, Absent, FALSE)

----------------------------------------------------------------------------
(* Step outcomes of publish_ad: NoError, or the error the step raises *)

TimeoutErr(text) == Err("TimeoutError", text, "", 0)

\* scraper.py:168-178, 280-291  web_click / web_input: web_find, then act
Lookup(found) == IF found THEN NoError ELSE TimeoutErr("No HTML element found")

\* scraper.py:356-383  web_select: the clickable poll and web_find may time
\* out; whether elem.apply raises for the script's `throw` is the browser
\* library's choice
WebSelectOutcomes == {NoError, TimeoutErr("No clickable HTML element"),
                      Err("ProtocolException", "Option not found", "", 0)}

\* publish.py:61
SetTitleOutcomes == {Lookup(f) : f \in BOOLEAN}

RECURSIVE SpecialAttributeOutcomes(_)
\* publish.py:151-189  the loop over the items: condition_s sets the
\* condition (publish.py:110-137), which fails only when the dialog cannot
\* be closed; for any other key the print of line 157 formats two
\* placeholders with one argument
SpecialAttributeOutcomes(items) ==
    IF items = <<>> THEN {NoError}
    ELSE IF Head(items)[1] = "condition_s"
         THEN {TimeoutErr("Unable to close condition dialog!")}
              \cup SpecialAttributeOutcomes(Tail(items))
         ELSE {Err("TypeError", "not enough arguments for format string", "", 0)}

\* publish.py:147-149
SetSpecialAttributesOutcomes(a) ==
    IF a.special_attributes.none \/ a.special_attributes.items = <<>>
    THEN {NoError}
    ELSE SpecialAttributeOutcomes(a.special_attributes.items)

\* publish.py:65-67
SetPriceOutcomes == {Lookup(f) : f \in BOOLEAN} \cup WebSelectOutcomes

\* publish.py:225-235
shipping_options_mapping ==
    [t \in {"DHL_2", "Hermes_Päckchen", "Hermes_S", "DHL_5", "Hermes_M", "DHL_10", "DHL_20",
            "DHL_31,5", "Hermes_L"} |->
        CASE t = "DHL_2" -> <<"Klein", "Paket 2 kg">>
          [] t = "Hermes_Päckchen" -> <<"Klein", "Päckchen">>
          [] t = "Hermes_S" -> <<"Klein", "S-Paket">>
          [] t = "DHL_5" -> <<"Mittel", "Paket 5 kg">>
          [] t = "Hermes_M" -> <<"Mittel", "M-Paket">>
          [] t = "DHL_10" -> <<"Groß", "Paket 10 kg">>
          [] t = "DHL_20" -> <<"Groß", "Paket 20 kg">>
          [] t = "DHL_31,5" -> <<"Groß", "Paket 31,5 kg">>
          [] t = "Hermes_L" -> <<"Groß", "L-Paket">>]

\* publish.py:221-280  __set_shipping_options
SetShippingOptionsOutcomes(options) ==
    LET tags == {options[i] : i \in 1..Len(options)}
    IN  IF options = <<>> THEN {NoError}
        ELSE IF \E t \in tags : t \notin DOMAIN shipping_options_mapping
        THEN {Err("KeyError", "Unknown shipping option(s)", "", 0)}
        ELSE IF Cardinality({shipping_options_mapping[t][1] : t \in tags}) # 1
        THEN {Err("ValueError", "You can only specify shipping options for one package size!", "", 0)}
        ELSE {NoError, TimeoutErr("Unable to close shipping dialog!")}

\* publish.py:191-219  __set_shipping
SetShippingOutcomes(a) ==
    IF a.shipping_type = "PICKUP" THEN {NoError}
    ELSE IF ~a.shipping_options.none /\ a.shipping_options.items # <<>>
    THEN {Lookup(f) : f \in BOOLEAN} \cup SetShippingOptionsOutcomes(a.shipping_options.items)
    ELSE \* web_check raises when the selector is absent
         {Lookup(FALSE)} \cup WebSelectOutcomes
         \cup (IF a.shipping_costs # "None"
               THEN {NoError, TimeoutErr("Unable to close shipping dialog!")}
               ELSE {NoError})

\* publish.py:282-287
UploadImagesOutcomes(a) == IF a.images = <<>> THEN {NoError} ELSE {Lookup(f) : f \in BOOLEAN}

\* the adId parameter of the confirmation URL, as characters
Digits == {"0", "1", "2", "3", "4", "5", "6", "7", "8", "9"}
DigitValue(c) == CASE c = "0" -> 0 [] c = "1" -> 1 [] c = "2" -> 2 [] c = "3" -> 3 [] c = "4" -> 4
                   [] c = "5" -> 5 [] c = "6" -> 6 [] c = "7" -> 7 [] c = "8" -> 8 [] c = "9" -> 9
RECURSIVE ParseInt(_)
\* int() on a string of decimal digits
ParseInt(s) == IF s = <<>> THEN 0 ELSE 10 * ParseInt(SubSeq(s, 1, Len(s) - 1)) + DigitValue(s[Len(s)])

FormUrl == [confirmation |-> FALSE, adId |-> <<>>]
ConfirmationUrl(p) == [confirmation |-> TRUE, adId |-> p]
AdIdParams == {<<>>, <<"x">>, <<"4", "7">>, <<"0", "8">>, <<"4", "7", "1", "1">>}

\* publish.py:97-98  parse_qs drops a blank value, [][0] raises IndexError,
\* int() raises ValueError on a non-number
ExtractIdError(u) ==
    IF u.adId = <<>> THEN Err("IndexError", "list index out of range", "", 0)
    ELSE IF \E i \in 1..Len(u.adId) : u.adId[i] \notin Digits
    THEN Err("ValueError", "invalid literal for int()", "", 0)
    ELSE NoError
ExtractIdValueOfFirstCharacter(u) == DigitValue(u.adId[1])
\* publish.py:98  int(...[0])
ExtractIdValue(u) == ParseInt(u.adId)

----------------------------------------------------------------------------
(* publish_ads and publish_ad *)

MaxAds == 2

SetStatus(i, s) == [ad_status EXCEPT ![i] = s]

CaughtOnlyTimeout(e) == e.kind = "TimeoutError"
\* publish.py:50  except Exception
CaughtPerAd(e) == e.kind \in {"TimeoutError", "KeyError", "ValueError", "TypeError", "IndexError",
                              "ValidationError", "ProtocolException", "AssertionError"}

\* publish.py:30-39  load_ad validates every file before anything else
\* is done; a ValidationError leaves publish_ads
LoadAds ==
    /\ pc = "start"
    /\ IF \A i \in 1..Len(files) : AdPartialIsValid(files[i])
       THEN /\ ads' = files
            /\ ad_status' = [i \in 1..Len(files) |-> "pending"]
            /\ extracted' = [i \in 1..Len(files) |-> 0]
            /\ pc' = IF Len(files) = 0 THEN "done" ELSE "session"
            /\ error' = error
       ELSE /\ pc' = "aborted"
            /\ error' = Err("ValidationError", "AdPartial", "", 0)
            /\ UNCHANGED <<ads, ad_status, extracted>>
    /\ UNCHANGED <<files, submit_lookups, captcha, config, idx, ad, browser, tabs, login, steps, url, ad_id>>
    /\ UNCHANGED <<pollVars, findVars, unitVars>>

\* publish.py:41-43, scraper.py:50-56
CreateBrowserSession ==
    /\ pc = "session"
    /\ \E port_open \in BOOLEAN :
        IF port_open
        THEN browser' = TRUE /\ pc' = "check_login" /\ error' = error
        ELSE browser' = FALSE /\ pc' = "aborted"
             /\ error' = Err("AssertionError", "Browser remote debugging port is not open", "", 0)
    /\ UNCHANGED <<files, submit_lookups, captcha, config, ads, idx, ad, tabs, login, steps, ad_status, url, ad_id, extracted>>
    /\ UNCHANGED <<pollVars, findVars, unitVars>>

\* scraper.py:62-74  check_logged_in reads the identity regions of the page
CheckLoggedInStep ==
    /\ pc = "check_login"
    /\ \E primary \in Regions, fallback \in Regions :
        login' = LoginRecord(primary, fallback, CheckLoggedIn(config.username, primary, fallback))
    /\ pc' = "ensure_login"
    /\ UNCHANGED <<files, submit_lookups, captcha, config, ads, idx, ad, browser, tabs, steps, ad_status, error, url, ad_id,
                   extracted>>
    /\ UNCHANGED <<pollVars, findVars, unitVars>>

\* scraper.py:76-77, publish.py:44  the assert on check_logged_in's result
EnsureLoggedIn ==
    /\ pc = "ensure_login"
    /\ IF login.ok
       THEN /\ pc' = "loop" /\ idx' = 1 /\ error' = error
            \* check_logged_in's locals are gone, its result stands
            /\ login' = LoginRecord(Absent, Absent, TRUE)
       ELSE /\ pc' = "aborted" /\ idx' = idx /\ login' = login
            /\ error' = Err("AssertionError", "Log in before starting the program", "", 0)
    /\ UNCHANGED <<files, submit_lookups, captcha, config, ads, ad, browser, tabs, steps, ad_status, url, ad_id, extracted>>
    /\ UNCHANGED <<pollVars, findVars, unitVars>>

OpenTabWithoutAwait ==
    /\ pc \notin {"off", "start", "session", "check_login", "ensure_login", "done", "aborted"}
    /\ idx < Len(ads)
    /\ idx' = idx + 1
    /\ tabs' = tabs + 1
    /\ steps' = <<>>
    /\ ad_status' = SetStatus(idx + 1, "running")
    /\ url' = FormUrl
    /\ pc' = "to_ad"
    /\ UNCHANGED <<files, submit_lookups, captcha, config, ads, ad, browser, login, error, ad_id, extracted>>
    /\ UNCHANGED <<pollVars, findVars, unitVars>>

\* publish.py:46-47  the next iteration of the for loop opens the ad form
OpenTab ==
    /\ pc = "loop"
    /\ idx <= Len(ads)
    /\ tabs' = tabs + 1
    /\ steps' = <<>>
    /\ ad_status' = SetStatus(idx, "running")
    /\ url' = FormUrl
    /\ pc' = "to_ad"
    /\ UNCHANGED <<files, submit_lookups, captcha, config, ads, idx, ad, browser, login, error, ad_id, extracted>>
    /\ UNCHANGED <<pollVars, findVars, unitVars>>

\* publish.py:46  the for loop is exhausted
LoopEnd ==
    /\ pc = "loop"
    /\ idx > Len(ads)
    /\ pc' = "done"
    /\ UNCHANGED <<files, submit_lookups, captcha, config, ads, idx, ad, browser, tabs, login, steps, ad_status, error, url,
                   ad_id, extracted>>
    /\ UNCHANGED <<pollVars, findVars, unitVars>>

\* publish.py:49  ad.to_ad(config.ad_defaults), inside the try
ToAdStep ==
    /\ pc = "to_ad"
    /\ LET r == ToAd(ads[idx], config.defaults)
       IN  IF r.error = NoError
           THEN ad' = r.ad /\ pc' = "title" /\ error' = error
           ELSE ad' = ad /\ pc' = "except" /\ error' = r.error
    /\ ad_id' = 0
    /\ UNCHANGED <<files, submit_lookups, captcha, config, ads, idx, browser, tabs, login, steps, ad_status, url, extracted>>
    /\ UNCHANGED <<pollVars, findVars, unitVars>>

\* one step of publish_ad: it is recorded, then succeeds or raises
Step(from, name, outcomes, to) ==
    /\ pc = from
    /\ steps' = Append(steps, name)
    /\ \E o \in outcomes :
        IF o = NoError
        THEN pc' = to /\ error' = error
        ELSE pc' = "except" /\ error' = o
    /\ UNCHANGED <<files, submit_lookups, captcha, config, ads, idx, ad, browser, tabs, login, ad_status, url, ad_id,
                   extracted>>
    /\ UNCHANGED <<pollVars, findVars, unitVars>>

\* publish.py:61
SetTitle == Step("title", "SetTitle", SetTitleOutcomes, "special_attributes")
\* publish.py:63
SetSpecialAttributes ==
    Step("special_attributes", "SetSpecialAttributes", SetSpecialAttributesOutcomes(ad), "price")
\* publish.py:65-67
SetPrice == Step("price", "SetPrice", SetPriceOutcomes, "shipping")
\* publish.py:69
SetShipping == Step("shipping", "SetShipping", SetShippingOutcomes(ad), "description")
\* publish.py:72
SetDescription == Step("description", "SetDescription", {NoError}, "images")
\* publish.py:74-75
UploadImages == Step("images", "UploadImages", UploadImagesOutcomes(ad), "captcha")

DetectCaptchaWithoutWaiting(probe) == IF probe = "error" THEN "except" ELSE "submit"
\* scraper.py:79-92  detect_captcha: with the iframe found it goes on to
\* ainput; the probe's TimeoutError is passed over; another error of the
\* probe leaves detect_captcha
DetectCaptchaNext(probe) ==
    CASE probe = "present" -> "captcha_wait"
      [] probe = "absent" -> "submit"
      [] probe = "error" -> "except"

\* publish.py:77, scraper.py:81-82  the probe for the challenge iframe, timeout 2 s
DetectCaptcha ==
    /\ pc = "captcha"
    /\ steps' = Append(steps, "ChallengeCheckpoint")
    /\ \E probe \in {"present", "absent", "error"} :
        /\ captcha' = probe
        /\ pc' = DetectCaptchaNext(probe)
        /\ error' = IF probe = "error" THEN QueryError ELSE error
    /\ UNCHANGED <<files, submit_lookups, config, ads, idx, ad, browser, tabs, login, ad_status, url, ad_id,
                   extracted>>
    /\ UNCHANGED <<pollVars, findVars, unitVars>>

\* scraper.py:90  ainput returns when the operator presses a key
OperatorConfirms ==
    /\ pc = "captcha_wait"
    /\ pc' = "submit"
    /\ captcha' = "confirmed"
    /\ UNCHANGED <<files, submit_lookups, config, ads, idx, ad, browser, tabs, login, steps, ad_status, error, url,
                   ad_id, extracted>>
    /\ UNCHANGED <<pollVars, findVars, unitVars>>

\* the controls of publish.py:80-84
PrimarySubmit == "pstad-submit"
AlternateSubmit == "postad-publish"
ImprintGuidance == "imprint-guidance-submit"

\* web_click in the submit step: the lookup is recorded; found, the control
\* is clicked and the step is at `to`
SubmitClick(from, control, to, otherwise) ==
    /\ pc = from
    /\ \E found \in BOOLEAN :
        /\ submit_lookups' = Append(submit_lookups, <<control, found>>)
        /\ IF found
           THEN pc' = to /\ error' = error
           ELSE /\ pc' = otherwise
                /\ error' = IF otherwise = "except" THEN Lookup(FALSE) ELSE error

\* publish.py:79-81, 86-92  the primary submit control; its TimeoutError
\* leads to the alternate control; after the submit the
\* publish-without-image question is answered (its TimeoutError is swallowed)
Submit ==
    /\ SubmitClick("submit", PrimarySubmit, "await_url", "alternate")
    /\ steps' = Append(steps, "Submit")
    /\ UNCHANGED <<files, captcha, config, ads, idx, ad, browser, tabs, login, ad_status, url, ad_id,
                   extracted>>
    /\ UNCHANGED <<pollVars, findVars, unitVars>>

\* publish.py:83  the control of the confirmation fieldset, in the handler
\* of the primary control's TimeoutError
ClickAlternate ==
    /\ SubmitClick("alternate", AlternateSubmit, "imprint_guidance", "except")
    /\ UNCHANGED <<files, captcha, config, ads, idx, ad, browser, tabs, login, steps, ad_status, url,
                   ad_id, extracted>>
    /\ UNCHANGED <<pollVars, findVars, unitVars>>

\* publish.py:84, 86-92  the imprint-guidance confirmation, clicked in the
\* same handler outside any try; then the publish-without-image question
DismissImprintGuidance ==
    /\ SubmitClick("imprint_guidance", ImprintGuidance, "await_url", "except")
    /\ UNCHANGED <<files, captcha, config, ads, idx, ad, browser, tabs, login, steps, ad_status, url,
                   ad_id, extracted>>
    /\ UNCHANGED <<pollVars, findVars, unitVars>>

\* publish.py:94  web_await on the confirmation marker, timeout 20 s
AwaitConfirmationUrl ==
    /\ pc = "await_url"
    /\ steps' = Append(steps, "AwaitConfirmationUrl")
    /\ \/ \E p \in AdIdParams :
            url' = ConfirmationUrl(p) /\ pc' = "extract" /\ error' = error
       \/ url' = url /\ pc' = "except"
          /\ error' = GenericTimeoutError(NoMessage, 40)
    /\ UNCHANGED <<files, submit_lookups, captcha, config, ads, idx, ad, browser, tabs, login, ad_status, ad_id, extracted>>
    /\ UNCHANGED <<pollVars, findVars, unitVars>>

\* publish.py:97-98
ExtractId ==
    /\ pc = "extract"
    /\ steps' = Append(steps, "ExtractId")
    /\ IF ExtractIdError(url) = NoError
       THEN /\ ad_id' = ExtractIdValue(url)
            /\ extracted' = [extracted EXCEPT ![idx] = ExtractIdValue(url)]
            /\ pc' = "return"
            /\ error' = error
       ELSE /\ ad_id' = ad_id
            /\ extracted' = extracted
            /\ pc' = "except"
            /\ error' = ExtractIdError(url)
    /\ UNCHANGED <<files, submit_lookups, captcha, config, ads, idx, ad, browser, tabs, login, ad_status, url>>
    /\ UNCHANGED <<pollVars, findVars, unitVars>>

\* publish.py:100-108, 49  the approval link is tolerated; publish_ad returns
\* ad_id and publish_ads drops the value
ReturnAdId ==
    /\ pc = "return"
    /\ ad_status' = SetStatus(idx, "published")
    /\ pc' = "close"
    /\ UNCHANGED <<files, submit_lookups, captcha, config, ads, idx, ad, browser, tabs, login, steps, error, url, ad_id,
                   extracted>>
    /\ UNCHANGED <<pollVars, findVars, unitVars>>

ExceptHandlerWithoutClose ==
    /\ pc = "except"
    /\ idx' = idx + 1
    /\ IF CaughtPerAd(error)
       THEN pc' = "loop" /\ ad_status' = SetStatus(idx, "failed")
       ELSE pc' = "aborted" /\ ad_status' = ad_status
    /\ UNCHANGED <<files, submit_lookups, captcha, config, ads, ad, browser, tabs, login, steps, error, url, ad_id,
                   extracted>>
    /\ UNCHANGED <<pollVars, findVars, unitVars>>

\* publish.py:50-51  except Exception as e: print(e)
ExceptHandler ==
    /\ pc = "except"
    /\ IF CaughtPerAd(error)
       THEN pc' = "close" /\ ad_status' = SetStatus(idx, "failed")
       ELSE pc' = "aborted" /\ ad_status' = ad_status
    /\ UNCHANGED <<files, submit_lookups, captcha, config, ads, idx, ad, browser, tabs, login, steps, error, url, ad_id,
                   extracted>>
    /\ UNCHANGED <<pollVars, findVars, unitVars>>

CloseTabWithoutAdvance ==
    /\ pc = "close"
    /\ tabs' = tabs - 1
    /\ idx' = idx
    /\ pc' = "loop"
    /\ ad' = NoAd
    /\ steps' = <<>>
    /\ submit_lookups' = <<>>
    /\ captcha' = "none"
    /\ error' = NoError
    /\ url' = FormUrl
    /\ ad_id' = 0
    /\ UNCHANGED <<files, config, ads, browser, login, ad_status, extracted>>
    /\ UNCHANGED <<pollVars, findVars, unitVars>>

\* publish.py:52  await tab.close(), then the loop advances; the locals of
\* the ended publish_ad call and of the handler are gone
CloseTab ==
    /\ pc = "close"
    /\ tabs' = tabs - 1
    /\ idx' = idx + 1
    /\ pc' = "loop"
    /\ ad' = NoAd
    /\ steps' = <<>>
    /\ submit_lookups' = <<>>
    /\ captcha' = "none"
    /\ error' = NoError
    /\ url' = FormUrl
    /\ ad_id' = 0
    /\ UNCHANGED <<files, config, ads, browser, login, ad_status, extracted>>
    /\ UNCHANGED <<pollVars, findVars, unitVars>>

RECURSIVE SeqsUpTo(_, _)
SeqsUpTo(S, n) ==
    IF n = 0 THEN {<<>>}
    ELSE LET shorter == SeqsUpTo(S, n - 1)
         IN  shorter \cup {Append(s, x) : s \in shorter, x \in S}

Init ==
    /\ pc = "start"
    /\ files \in SeqsUpTo(AdPool, MaxAds)
    /\ config \in [username : Usernames, defaults : AdDefaultsPool]
    /\ ads = <<>>
    /\ idx = 0
    /\ ad = NoAd
    /\ browser = FALSE
    /\ tabs = 0
    /\ login = NoLogin
    /\ steps = <<>>
    /\ submit_lookups = <<>>
    /\ captcha = "none"
    /\ ad_status = <<>>
    /\ error = NoError
    /\ url = FormUrl
    /\ ad_id = 0
    /\ extracted = <<>>
    /\ PollFindOff
    /\ UnitsOff

Next ==
    \/ LoadAds \/ CreateBrowserSession \/ CheckLoggedInStep \/ EnsureLoggedIn
    \/ OpenTab \/ LoopEnd \/ ToAdStep
    \/ SetTitle \/ SetSpecialAttributes \/ SetPrice \/ SetShipping \/ SetDescription
    \/ UploadImages \/ DetectCaptcha \/ OperatorConfirms \/ Submit \/ ClickAlternate
    \/ DismissImprintGuidance
    \/ AwaitConfirmationUrl \/ ExtractId \/ ReturnAdId \/ ExceptHandler \/ CloseTab

Spec == Init /\ [][Next]_vars

----------------------------------------------------------------------------
(* Scraper.web_select *)

MaxOptions == 3

\* the values of the <option/> elements of the controls: the price type
\* (publish.py:66) and the commercial shipping selector (publish.py:208)
OptionValues == {"NEGOTIABLE", "FIXED", "ja"}

\* scraper.py:370-374  the for loop: the index (from 1) of the first option
\* whose value == selected_value, 0 when the loop ends without a match
FirstMatch(opts, value) ==
    IF \E i \in 1..Len(opts) : opts[i] = value
    THEN CHOOSE i \in 1..Len(opts) : opts[i] = value /\ \A j \in 1..(i - 1) : opts[j] # value
    ELSE 0

\* scraper.py:376  the throw statement follows the for loop and `break`
\* leaves the loop only: the script throws on every call
ScriptThrows(opts, value) == TRUE

\* scraper.py:368-377  the script applied to the control
SelectScript(opts, value, index, changes) ==
    LET i == FirstMatch(opts, value)
    IN  [selectedIndex |-> IF i # 0 THEN i - 1 ELSE index,
         changes |-> IF i # 0 THEN changes + 1 ELSE changes,
         threw |-> ScriptThrows(opts, value)]

OptionNotFound == Err("ProtocolException", "Option with value not found.", "", 0)

\* scraper.py:363-367  the poll for a clickable element and web_find
WebSelectLocate ==
    /\ sel_pc = "entry"
    /\ \E located \in BOOLEAN :
        IF located
        THEN sel_pc' = "located" /\ sel_error' = sel_error
        ELSE sel_pc' = "raised" /\ sel_error' = TimeoutErr("No clickable HTML element")
    /\ UNCHANGED <<sel_options, sel_value, selectedIndex, sel_changes>>
    /\ UNCHANGED exceptSel

\* scraper.py:368-383  elem.apply, web_sleep, return elem; whether apply
\* raises for an exception thrown by the script is the browser library's choice
WebSelectApply ==
    /\ sel_pc = "located"
    /\ LET r == SelectScript(sel_options, sel_value, selectedIndex, sel_changes)
       IN  /\ selectedIndex' = r.selectedIndex
           /\ sel_changes' = r.changes
           /\ \E apply_raises \in BOOLEAN :
               IF r.threw /\ apply_raises
               THEN sel_pc' = "raised" /\ sel_error' = OptionNotFound
               ELSE sel_pc' = "returned" /\ sel_error' = sel_error
    /\ UNCHANGED <<sel_options, sel_value>>
    /\ UNCHANGED exceptSel

InitSelect ==
    /\ sel_pc = "entry"
    /\ sel_options \in SeqsUpTo(OptionValues, MaxOptions)
    /\ sel_value \in OptionValues
    /\ selectedIndex = IF sel_options = <<>> THEN -1 ELSE 0
    /\ sel_changes = 0
    /\ sel_error = NoError
    /\ PollFindOff
    /\ RunOff
    /\ ShippingOff
    /\ ValidateOff
    /\ MergeOff
    /\ AttributesOff
    /\ SleepOff

NextSelect == WebSelectLocate \/ WebSelectApply

SpecSelect == InitSelect /\ [][NextSelect]_vars

----------------------------------------------------------------------------
(* __set_shipping and __set_shipping_options *)

MaxTags == 3

\* publish.py:225-235  the keys of shipping_options_mapping, in the dict's order
MappingKeys == <<"DHL_2", "Hermes_Päckchen", "Hermes_S", "DHL_5", "Hermes_M", "DHL_10", "DHL_20", "DHL_31,5", "Hermes_L">>

SizeOf(t) == shipping_options_mapping[t][1]
PackageOf(t) == shipping_options_mapping[t][2]
PackagesOfSize(size) == {PackageOf(t) : t \in {k \in DOMAIN shipping_options_mapping : SizeOf(k) = size}}

\* the tags an ad requests: known ones of two size classes and an unknown one
ShippingTags == {"DHL_2", "Hermes_S", "DHL_10", "FooBar"}

Range(s) == {s[i] : i \in 1..Len(s)}

OptionOrdersKeepingDuplicates(options) == {options}
\* publish.py:237  set(ad_cfg.shipping_options), iterated in the order the
\* hashes decide
OptionOrders(options) ==
    LET tags == Range(options)
    IN  {s \in [1..Cardinality(tags) -> tags] : Range(s) = tags}

UnknownOptionErrorNamingNothing(options) ==
    IF \E t \in Range(options) : t \notin DOMAIN shipping_options_mapping
    THEN ShErr("KeyError", "Unknown shipping option(s), please refer to the documentation/README", <<>>)
    ELSE NoShErr
\* publish.py:236-239  the KeyError of the lookup, re-raised with the
\* requested options in its message
UnknownOptionError(options) ==
    IF \E t \in Range(options) : t \notin DOMAIN shipping_options_mapping
    THEN ShErr("KeyError", "Unknown shipping option(s), please refer to the documentation/README", options)
    ELSE NoShErr

SingleSizeErrorNever(sizes) == NoShErr
\* publish.py:243-246  shipping_size, = set(shipping_sizes)
SingleSizeError(sizes) ==
    IF Cardinality(sizes) # 1
    THEN ShErr("ValueError", "You can only specify shipping options for one package size!", <<>>)
    ELSE NoShErr

\* publish.py:253-256  the packages of the size class that are not requested,
\* in the table's order
UnwantedPackages(size, packages) ==
    LET keys == SelectSeq(MappingKeys, LAMBDA t : SizeOf(t) = size /\ PackageOf(t) \notin Range(packages))
    IN  [i \in 1..Len(keys) |-> PackageOf(keys[i])]

\* the controls of the shipping section and of its dialog
Control(kind, label) == [kind |-> kind, label |-> label]
PickupRadio == Control("radio", "Nur Abholung")
SelectionButton == Control("button", "SelectionButton")
OtherMethodsButton == Control("button", "Andere Versandmethoden")
SizeRadio(size) == Control("radio", size)
ContinueButton == Control("button", "Weiter")
PackageControl(package) == Control("package", package)
IndividualButton == Control("button", "Individueller Versand")
CostsInput == Control("input", "IndividualShippingInput")
ApplyButton == Control("button", "Fertig")

\* elem.click() on a package control: a checkbox changes its state
Toggle(checked, package) ==
    IF package \in checked THEN checked \ {package} ELSE checked \cup {package}

ShRaise(e) == sh_pc' = "raised" /\ sh_error' = e
ShTimeout == ShErr("TimeoutError", "No HTML element found", <<>>)
ShDialogError == ShErr("TimeoutError", "Unable to close shipping dialog!", <<>>)

\* publish.py:192-203  the three branches of __set_shipping; the pickup
\* radio's absence is tolerated
SetShippingEnter ==
    /\ sh_pc = "start"
    /\ IF sh_ad.shipping_type = "PICKUP"
       THEN /\ sh_pc' = "returned"
            /\ \E found \in BOOLEAN :
                sh_clicks' = IF found THEN Append(sh_clicks, PickupRadio) ELSE sh_clicks
       ELSE /\ sh_clicks' = sh_clicks
            /\ sh_pc' = IF ~sh_ad.shipping_options.none /\ sh_ad.shipping_options.items # <<>>
                        THEN "open_dialog" ELSE "fallback"
    /\ UNCHANGED <<sh_ad, sh_selector, sh_radio, sh_checked, sh_before, sh_missed, shipping_size,
                   shipping_packages, to_be_clicked, sh_error>>
    /\ UNCHANGED exceptShip

\* publish.py:200-201  the two clicks that open the dialog of the shipping methods
OpenShippingDialog ==
    /\ sh_pc = "open_dialog"
    /\ \E found \in 0..2 :
        /\ sh_clicks' = sh_clicks \o SubSeq(<<SelectionButton, OtherMethodsButton>>, 1, found)
        /\ IF found = 2
           THEN sh_pc' = "resolve" /\ sh_error' = sh_error
           ELSE ShRaise(ShTimeout)
    /\ UNCHANGED <<sh_ad, sh_selector, sh_radio, sh_checked, sh_before, sh_missed, shipping_size,
                   shipping_packages, to_be_clicked>>
    /\ UNCHANGED exceptShip

\* publish.py:222-246  the lookup of the options and the single size class
ResolveShippingOptions ==
    /\ sh_pc = "resolve"
    /\ LET options == sh_ad.shipping_options.items
       IN  IF UnknownOptionError(options) # NoShErr
           THEN /\ ShRaise(UnknownOptionError(options))
                /\ UNCHANGED <<shipping_size, shipping_packages>>
           ELSE \E order \in OptionOrders(options) :
                   LET mapped_shipping_options ==
                           [i \in 1..Len(order) |-> shipping_options_mapping[order[i]]]
                       shipping_sizes == {mapped_shipping_options[i][1] : i \in 1..Len(order)}
                   IN  IF SingleSizeError(shipping_sizes) # NoShErr
                       THEN /\ ShRaise(SingleSizeError(shipping_sizes))
                            /\ UNCHANGED <<shipping_size, shipping_packages>>
                       ELSE /\ shipping_size' = CHOOSE size \in shipping_sizes : TRUE
                            /\ shipping_packages' =
                                   [i \in 1..Len(order) |-> mapped_shipping_options[i][2]]
                            /\ sh_pc' = "find_radio"
                            /\ sh_error' = sh_error
    /\ UNCHANGED <<sh_ad, sh_selector, sh_radio, sh_checked, sh_before, sh_clicks, sh_missed, to_be_clicked>>
    /\ UNCHANGED exceptShip

\* publish.py:249-260  the size-class radio: checked already, or clicked; a
\* TimeoutError of web_find or web_click is caught at line 273
FindSizeRadio ==
    /\ sh_pc = "find_radio"
    /\ \/ \* web_find or web_click times out
          /\ sh_pc' = "apply"
          /\ UNCHANGED <<sh_radio, sh_checked, sh_clicks, to_be_clicked>>
       \/ /\ sh_radio = shipping_size
          /\ to_be_clicked' = UnwantedPackages(shipping_size, shipping_packages)
          /\ sh_pc' = "continue"
          /\ UNCHANGED <<sh_radio, sh_checked, sh_clicks>>
       \/ /\ sh_radio # shipping_size
          /\ sh_clicks' = Append(sh_clicks, SizeRadio(shipping_size))
          /\ sh_radio' = shipping_size
          \* the site keeps or clears the package selection
          /\ sh_checked' \in {sh_checked, {}}
          /\ to_be_clicked' = shipping_packages
          /\ sh_pc' = "continue"
    /\ UNCHANGED <<sh_ad, sh_selector, sh_before, sh_missed, shipping_size, shipping_packages, sh_error>>
    /\ UNCHANGED exceptShip

ClickContinueUnrecorded ==
    /\ sh_pc = "continue"
    /\ sh_pc' = IF to_be_clicked = <<>> THEN "apply" ELSE "packages"
    /\ UNCHANGED <<sh_ad, sh_selector, sh_radio, sh_checked, sh_before, sh_clicks, sh_missed, shipping_size,
                   shipping_packages, to_be_clicked, sh_error>>
    /\ UNCHANGED exceptShip
\* publish.py:262  the continue control; its TimeoutError is caught at line 273
ClickContinue ==
    /\ sh_pc = "continue"
    /\ \E found \in BOOLEAN :
        IF found
        THEN /\ sh_clicks' = Append(sh_clicks, ContinueButton)
             /\ sh_pc' = IF to_be_clicked = <<>> THEN "apply" ELSE "packages"
        ELSE /\ sh_clicks' = sh_clicks
             /\ sh_pc' = "apply"
    /\ UNCHANGED <<sh_ad, sh_selector, sh_radio, sh_checked, sh_before, sh_missed, shipping_size,
                   shipping_packages, to_be_clicked, sh_error>>
    /\ UNCHANGED exceptShip

\* publish.py:264-271  one iteration of the loop over the packages; a
\* control that is not found is printed and skipped
ClickPackage ==
    /\ sh_pc = "packages"
    /\ LET shipping_package == Head(to_be_clicked)
       IN  \E found \in BOOLEAN :
            IF found
            THEN /\ sh_clicks' = Append(sh_clicks, PackageControl(shipping_package))
                 /\ sh_checked' = Toggle(sh_checked, shipping_package)
                 /\ sh_missed' = sh_missed
            ELSE /\ sh_clicks' = sh_clicks
                 /\ sh_checked' = sh_checked
                 /\ sh_missed' = sh_missed \cup {shipping_package}
    /\ to_be_clicked' = Tail(to_be_clicked)
    /\ sh_pc' = IF Tail(to_be_clicked) = <<>> THEN "apply" ELSE "packages"
    /\ UNCHANGED <<sh_ad, sh_selector, sh_radio, sh_before, shipping_size, shipping_packages, sh_error>>
    /\ UNCHANGED exceptShip

ClickApplyTolerated ==
    /\ sh_pc = "apply"
    /\ \E found \in BOOLEAN :
        sh_clicks' = IF found THEN Append(sh_clicks, ApplyButton) ELSE sh_clicks
    /\ sh_pc' = "returned"
    /\ UNCHANGED <<sh_ad, sh_selector, sh_radio, sh_checked, sh_before, sh_missed, shipping_size,
                   shipping_packages, to_be_clicked, sh_error>>
    /\ UNCHANGED exceptShip
\* publish.py:276-280  the apply control closes the dialog
ClickApply ==
    /\ sh_pc = "apply"
    /\ \E found \in BOOLEAN :
        IF found
        THEN /\ sh_clicks' = Append(sh_clicks, ApplyButton)
             /\ sh_pc' = "returned"
             /\ sh_error' = sh_error
        ELSE /\ sh_clicks' = sh_clicks
             /\ ShRaise(ShDialogError)
    /\ UNCHANGED <<sh_ad, sh_selector, sh_radio, sh_checked, sh_before, sh_missed, shipping_size,
                   shipping_packages, to_be_clicked>>
    /\ UNCHANGED exceptShip

\* publish.py:213-217  the interactions that enter a custom shipping cost
CostsInteractions == <<SelectionButton, OtherMethodsButton, IndividualButton, CostsInput, ApplyButton>>

\* the commercial-account shipping selector (publish.py:204)
ShippingSelector == Control("select", ".versand_s")

\* publish.py:204-219  neither pickup nor options: web_check looks the
\* commercial selector up (web_find's TimeoutError when it is absent leaves
\* the step) and tells whether it is displayed; displayed, it is set with
\* web_select, else the custom shipping cost is entered
SetShippingFallback ==
    /\ sh_pc = "fallback"
    /\ \/ \* web_check: web_find times out
          /\ sh_selector' = "absent"
          /\ ShRaise(ShTimeout)
          /\ sh_clicks' = sh_clicks
       \/ \* the selector is displayed: web_select
          /\ sh_selector' = "displayed"
          /\ \E o \in WebSelectOutcomes :
              /\ sh_clicks' = IF o.kind = "TimeoutError" THEN sh_clicks
                              ELSE Append(sh_clicks, ShippingSelector)
              /\ IF o = NoError
                 THEN sh_pc' = "returned" /\ sh_error' = sh_error
                 ELSE ShRaise(ShErr(o.kind, o.text, <<>>))
       \/ \* the selector is not displayed and no cost is configured
          /\ sh_selector' = "hidden"
          /\ sh_ad.shipping_costs = "None"
          /\ sh_clicks' = sh_clicks
          /\ sh_pc' = "returned"
          /\ sh_error' = sh_error
       \/ \* the selector is not displayed: the custom cost
          /\ sh_selector' = "hidden"
          /\ sh_ad.shipping_costs # "None"
          /\ \E found \in 0..Len(CostsInteractions) :
              /\ sh_clicks' = sh_clicks \o SubSeq(CostsInteractions, 1, found)
              /\ IF found = Len(CostsInteractions)
                 THEN sh_pc' = "returned" /\ sh_error' = sh_error
                 ELSE ShRaise(ShDialogError)
    /\ UNCHANGED <<sh_ad, sh_radio, sh_checked, sh_before, sh_missed, shipping_size,
                   shipping_packages, to_be_clicked>>
    /\ UNCHANGED exceptShip

\* publish.py:69-72, 49-51  publish_ad after __set_shipping: it goes on to
\* the description, or the error leaves publish_ad for the handler of
\* publish_ads
AfterSetShipping ==
    /\ sh_pc \in {"returned", "raised"}
    /\ sh_pc' = IF sh_pc = "returned" THEN "description" ELSE "except"
    /\ UNCHANGED <<sh_ad, sh_selector, sh_radio, sh_checked, sh_before, sh_clicks, sh_missed, shipping_size,
                   shipping_packages, to_be_clicked, sh_error>>
    /\ UNCHANGED exceptShip

UiState(radio, checked) == [radio |-> radio, checked |-> checked]

InitShipping ==
    /\ sh_pc = "start"
    /\ sh_ad \in [shipping_type : {"PICKUP", "SHIPPING", "NOT_APPLICABLE"},
                  shipping_options : {NoneList} \cup {List(o) : o \in SeqsUpTo(ShippingTags, MaxTags)},
                  shipping_costs : {"None", "4.95"}]
    /\ sh_selector = "unchecked"
    /\ sh_radio \in {"None", "Klein", "Groß"}
    /\ sh_checked \in SUBSET PackagesOfSize(sh_radio)
    /\ sh_before = UiState(sh_radio, sh_checked)
    /\ sh_clicks = <<>>
    /\ sh_missed = {}
    /\ shipping_size = "None"
    /\ shipping_packages = <<>>
    /\ to_be_clicked = <<>>
    /\ sh_error = NoShErr
    /\ PollFindOff
    /\ RunOff
    /\ SelectOff
    /\ ValidateOff
    /\ MergeOff
    /\ AttributesOff
    /\ SleepOff

NextShipping ==
    \/ SetShippingEnter \/ OpenShippingDialog \/ ResolveShippingOptions \/ FindSizeRadio
    \/ ClickContinue \/ ClickPackage \/ ClickApply \/ SetShippingFallback \/ AfterSetShipping

SpecShipping == InitShipping /\ [][NextShipping]_vars

----------------------------------------------------------------------------
(* AdPartial.model_validate *)

\* the value of a key of the document: missing, null, an int or a string
Missing == [t |-> "missing", n |-> 0, s |-> ""]
Null == [t |-> "null", n |-> 0, s |-> ""]
IntValue(n) == [t |-> "int", n |-> n, s |-> ""]
StrValue(x) == [t |-> "str", n |-> 0, s |-> x]

\* ad_model.py:82-83  values.get(key): None for a missing key
Get(value) == IF value = Missing THEN Null ELSE value

\* ad_model.py:79-88  the model validator, run before the fields are validated
PriceRuleErrors(doc) ==
    LET price_type == Get(doc.price_type)
        price == Get(doc.price)
    IN  IF price_type = StrValue("GIVE_AWAY") /\ price # Null
        THEN {"price must not be specified when price_type is GIVE_AWAY"}
        ELSE IF price_type = StrValue("FIXED") /\ price = Null
        THEN {"price is required when price_type is FIXED"}
        ELSE {}

\* ad_model.py:49  title: str = Field(..., min_length=10)
TitleErrors(doc) ==
    IF doc.title = Missing THEN {"title: Field required"}
    ELSE IF doc.title.t # "str" THEN {"title: Input should be a valid string"}
    ELSE IF doc.title.n < 10 THEN {"title: String should have at least 10 characters"}
    ELSE {}

\* ad_model.py:52  price: int
PriceErrors(doc) ==
    IF doc.price = Missing THEN {"price: Field required"}
    ELSE IF doc.price.t # "int" THEN {"price: Input should be a valid integer"}
    ELSE {}

\* ad_model.py:56  price_type: Literal[...] | None = OPTIONAL()
PriceTypeErrors(doc) ==
    IF doc.price_type \in {Missing, Null} \cup {StrValue(l) : l \in {"FIXED", "NEGOTIABLE", "GIVE_AWAY", "NOT_APPLICABLE"}}
    THEN {}
    ELSE {"price_type: Input should be 'FIXED', 'NEGOTIABLE', 'GIVE_AWAY' or 'NOT_APPLICABLE'"}

\* ad_model.py:57  shipping_type: Literal[...] | None = OPTIONAL()
ShippingTypeErrors(doc) ==
    IF doc.shipping_type \in {Missing, Null} \cup {StrValue(l) : l \in {"PICKUP", "SHIPPING", "NOT_APPLICABLE"}}
    THEN {}
    ELSE {"shipping_type: Input should be 'PICKUP', 'SHIPPING' or 'NOT_APPLICABLE'"}

\* AdPartial.model_validate: the errors of the ValidationError, none when
\* the document is accepted
ModelValidate(doc) ==
    IF PriceRuleErrors(doc) # {} THEN PriceRuleErrors(doc)
    ELSE TitleErrors(doc) \cup PriceErrors(doc) \cup PriceTypeErrors(doc) \cup ShippingTypeErrors(doc)

\* publish.py:33  AdPartial.model_validate(data)
Validate ==
    /\ v_pc = "entry"
    /\ v_errors' = ModelValidate(document)
    /\ v_pc' = IF ModelValidate(document) = {} THEN "accepted" ELSE "rejected"
    /\ UNCHANGED document
    /\ UNCHANGED exceptVal

\* a title of n characters
Title(n) == [t |-> "str", n |-> n, s |-> "title"]

\* the documents of the ad files
Documents ==
    [title : {Title(9), Title(10)},
     price : {Missing, Null, IntValue(0), IntValue(25), StrValue("free")},
     price_type : {Missing, Null, StrValue("AUCTION")}
                  \cup {StrValue(l) : l \in {"FIXED", "NEGOTIABLE", "GIVE_AWAY", "NOT_APPLICABLE"}},
     shipping_type : {Missing, StrValue("PICKUP"), StrValue("DRONE")}]

InitValidate ==
    /\ v_pc = "entry"
    /\ document \in Documents
    /\ v_errors = {}
    /\ PollFindOff
    /\ RunOff
    /\ SelectOff
    /\ ShippingOff
    /\ MergeOff
    /\ AttributesOff
    /\ SleepOff

NextValidate == Validate

SpecValidate == InitValidate /\ [][NextValidate]_vars

----------------------------------------------------------------------------
(* dicts.apply_defaults *)

\* a value of a mapping: None, a str, a list of str, or a mapping given by
\* its items (key, value) in insertion order
MV(t, str, elems, items) == [t |-> t, s |-> str, elems |-> elems, items |-> items]
MNone == MV("none", "", <<>>, <<>>)
MStr(x) == MV("str", x, <<>>, <<>>)
MList(elems) == MV("list", "", elems, <<>>)
MDict(items) == MV("dict", "", <<>>, items)

\* dicts.py:45  key in target: the position of the key's item, 0 if absent
IndexOf(items, key) ==
    IF \E i \in 1..Len(items) : items[i][1] = key
    THEN CHOOSE i \in 1..Len(items) : items[i][1] = key
    ELSE 0

\* the ignore predicates: the default (dicts.py:23) and to_ad's (ad_model.py:102)
Ignore(name, key, value) ==
    CASE name = "never" -> FALSE
      [] name = "description" -> key = "description"

\* the override predicates: the default (dicts.py:24), the doctest's
\* v == '' (dicts.py:35) and to_ad's (ad_model.py:103)
Override(name, key, value) ==
    CASE name = "never" -> FALSE
      [] name = "empty" -> value = MStr("")
      [] name = "none_or_empty" -> value.t # "list" /\ value \in {MNone, MStr("")}

\* ad_model.py:103  `v in {None, ""}` hashes v: TypeError for a mapping
OverrideRaises(name, value) == name = "none_or_empty" /\ value.t = "dict"

PresentValueExtendingLists(target_value, default_value, overridden) ==
    IF target_value.t = "list" /\ default_value.t = "list"
    THEN MList(target_value.elems \o default_value.elems)
    ELSE IF overridden THEN default_value ELSE target_value
\* dicts.py:53-54  the value of a key of the target that is not merged as a
\* mapping: the default's when override says so
PresentValue(target_value, default_value, overridden) ==
    IF overridden THEN default_value ELSE target_value

Merged(raises, items) == [raises |-> raises, items |-> items]

RECURSIVE ApplyDefaults(_, _, _, _)
\* dicts.py:44-57  the loop over defaults.items(), on the items of target
ApplyDefaults(target, defaults, ignore, override) ==
    IF defaults = <<>> THEN Merged(FALSE, target)
    ELSE LET key == Head(defaults)[1]
             default_value == Head(defaults)[2]
             at == IndexOf(target, key)
             iteration ==
                 IF at # 0
                 THEN IF target[at][2].t = "dict" /\ default_value.t = "dict"
                      THEN LET sub == ApplyDefaults(target[at][2].items, default_value.items,
                                                    ignore, override)
                           IN  Merged(sub.raises, [target EXCEPT ![at] = <<key, MDict(sub.items)>>])
                      ELSE IF OverrideRaises(override, target[at][2])
                      THEN Merged(TRUE, target)
                      ELSE Merged(FALSE, [target EXCEPT ![at] =
                               <<key, PresentValue(target[at][2], default_value,
                                                   Override(override, key, target[at][2]))>>])
                 ELSE IF ~Ignore(ignore, key, default_value)
                      THEN Merged(FALSE, Append(target, <<key, default_value>>))
                      ELSE Merged(FALSE, target)
         IN  IF iteration.raises THEN iteration
             ELSE ApplyDefaults(iteration.items, Tail(defaults), ignore, override)

\* the first call: apply_defaults(target, defaults, ignore, override)
MergeOnce ==
    /\ m_pc = "entry"
    /\ m_once' = ApplyDefaults(m_target, m_defaults, m_ignore, m_override)
    /\ m_pc' = IF m_once'.raises THEN "raised" ELSE "once"
    /\ UNCHANGED <<m_target, m_defaults, m_ignore, m_override, m_twice>>
    /\ UNCHANGED exceptMerge

\* the second call, on the result of the first
MergeTwice ==
    /\ m_pc = "once"
    /\ m_twice' = ApplyDefaults(m_once.items, m_defaults, m_ignore, m_override)
    /\ m_pc' = IF m_twice'.raises THEN "raised" ELSE "twice"
    /\ UNCHANGED <<m_target, m_defaults, m_ignore, m_override, m_once>>
    /\ UNCHANGED exceptMerge

\* the values of the keys: null, the empty string, a string, lists, mappings
\* (nested twice)
MergeValues ==
    {MNone, MStr(""), MStr("x"), MList(<<>>), MList(<<"y">>), MDict(<<>>),
     MDict(<<<<"k", MStr("")>>, <<"description", MStr("d")>>>>),
     MDict(<<<<"k", MDict(<<<<"k", MNone>>>>)>>>>),
     MDict(<<<<"k", MDict(<<<<"k", MStr("x")>>, <<"description", MNone>>>>)>>>>)}

\* the mappings over the keys a and description, each absent or present
Mappings ==
    {<<>>} \cup {<<<<"a", v>>>> : v \in MergeValues} \cup {<<<<"description", v>>>> : v \in MergeValues}
    \cup {<<<<"a", v>>, <<"description", w>>>> : v \in MergeValues, w \in MergeValues}

InitMerge ==
    /\ m_pc = "entry"
    /\ m_target \in Mappings
    /\ m_defaults \in Mappings
    /\ m_ignore \in {"never", "description"}
    /\ m_override \in {"never", "empty", "none_or_empty"}
    /\ m_once = Merged(FALSE, <<>>)
    /\ m_twice = Merged(FALSE, <<>>)
    /\ PollFindOff
    /\ RunOff
    /\ SelectOff
    /\ ShippingOff
    /\ ValidateOff
    /\ AttributesOff
    /\ SleepOff

NextMerge == MergeOnce \/ MergeTwice

SpecMerge == InitMerge /\ [][NextMerge]_vars

----------------------------------------------------------------------------
(* __set_special_attributes and __set_condition *)

MaxAttributes == 3

\* publish.py:111-118  the keys of condition_mapping
ConditionValues == {"new_with_tag", "new", "like_new", "ok", "alright", "defect"}

\* the items of an ad's special_attributes: the reserved condition key with
\* a value of the table and one outside it, and two other keys
AttributeItems == {<<"condition_s", "new">>, <<"condition_s", "mint">>, <<"brand_s", "x">>, <<"size_s", "42">>}
AttributeKeys == {item[1] : item \in AttributeItems}

\* the items of a mapping, in insertion order: no key twice
AttributeMappings ==
    {m \in SeqsUpTo(AttributeItems, MaxAttributes) :
        \A i \in 1..Len(m), j \in 1..Len(m) : m[i][1] = m[j][1] => i = j}

\* the kinds of form control publish.py:175-183 tells apart
ControlKinds == {"select", "checkbox", "text"}

\* the controls of the condition dialog
ConditionDialogButton == Control("button", "Bitte wählen")
ConditionRadio(value) == Control("radio", value)
ConditionAcceptButton == Control("button", "Bestätigen")

ConditionDialogError == TimeoutErr("Unable to close condition dialog!")

\* publish.py:157  "...[%s] to [%s]..." % special_attribute_key, special_attribute_value:
\* the % operator receives the key alone for two placeholders
SettingMessageError(key) == Err("TypeError", "not enough arguments for format string", "", 0)

AtRaise(e) == at_pc' = "raised" /\ at_error' = e

\* publish.py:147-151
SetSpecialAttributesEnter ==
    /\ at_pc = "entry"
    /\ IF at_attributes.none \/ at_attributes.items = <<>>
       THEN at_pc' = "returned" /\ at_rest' = at_rest
       ELSE at_pc' = "loop" /\ at_rest' = at_attributes.items
    /\ UNCHANGED <<at_attributes, at_controls, at_done, at_missing, at_error>>
    /\ UNCHANGED exceptAttr

\* publish.py:151-157  the head of the for loop: the reserved key sets the
\* condition; for any other key the print of line 157 raises, and the lookup
\* of the control (lines 158-189) is not reached
NextAttribute ==
    /\ at_pc = "loop"
    /\ IF at_rest = <<>>
       THEN at_pc' = "returned" /\ at_error' = at_error
       ELSE IF Head(at_rest)[1] = "condition_s"
       THEN at_pc' = "condition_open" /\ at_error' = at_error
       ELSE AtRaise(SettingMessageError(Head(at_rest)[1]))
    /\ UNCHANGED <<at_attributes, at_controls, at_rest, at_done, at_missing>>
    /\ UNCHANGED exceptAttr

OpenConditionDialogOrFail ==
    /\ at_pc = "condition_open"
    /\ \E found \in BOOLEAN :
        IF found
        THEN /\ at_done' = Append(at_done, <<"condition_s", ConditionDialogButton>>)
             /\ at_pc' = "condition_radio"
             /\ UNCHANGED <<at_missing, at_error>>
        ELSE /\ at_missing' = at_missing \cup {<<"condition_s", ConditionDialogButton>>}
             /\ AtRaise(TimeoutErr("No HTML element found"))
             /\ at_done' = at_done
    /\ UNCHANGED <<at_attributes, at_controls, at_rest>>
    /\ UNCHANGED exceptAttr
\* publish.py:121-125  the dialog's button; when it is not found the
\* condition is given up: __set_condition prints and returns, the loop goes on
OpenConditionDialog ==
    /\ at_pc = "condition_open"
    /\ \E found \in BOOLEAN :
        IF found
        THEN /\ at_done' = Append(at_done, <<"condition_s", ConditionDialogButton>>)
             /\ at_pc' = "condition_radio"
             /\ UNCHANGED <<at_rest, at_missing>>
        ELSE /\ at_missing' = at_missing \cup {<<"condition_s", ConditionDialogButton>>}
             /\ at_rest' = Tail(at_rest)
             /\ at_pc' = "loop"
             /\ at_done' = at_done
    /\ UNCHANGED <<at_attributes, at_controls, at_error>>
    /\ UNCHANGED exceptAttr

\* publish.py:119, 127-131  the radio of the mapped condition (none for a
\* value outside the table); its absence is printed
SelectCondition ==
    /\ at_pc = "condition_radio"
    /\ LET condition_value == Head(at_rest)[2]
       IN  \E found \in BOOLEAN :
            /\ found => condition_value \in ConditionValues
            /\ IF found
               THEN /\ at_done' = Append(at_done, <<"condition_s", ConditionRadio(condition_value)>>)
                    /\ at_missing' = at_missing
               ELSE /\ at_missing' = at_missing \cup {<<"condition_s", ConditionRadio(condition_value)>>}
                    /\ at_done' = at_done
    /\ at_pc' = "condition_close"
    /\ UNCHANGED <<at_attributes, at_controls, at_rest, at_error>>
    /\ UNCHANGED exceptAttr

\* publish.py:133-137, 154-155  the accept button closes the dialog, then `continue`
CloseConditionDialog ==
    /\ at_pc = "condition_close"
    /\ \E found \in BOOLEAN :
        IF found
        THEN /\ at_done' = Append(at_done, <<"condition_s", ConditionAcceptButton>>)
             /\ at_rest' = Tail(at_rest)
             /\ at_pc' = "loop"
             /\ UNCHANGED <<at_missing, at_error>>
        ELSE /\ at_missing' = at_missing \cup {<<"condition_s", ConditionAcceptButton>>}
             /\ AtRaise(ConditionDialogError)
             /\ UNCHANGED <<at_rest, at_done>>
    /\ UNCHANGED <<at_attributes, at_controls>>
    /\ UNCHANGED exceptAttr

\* publish.py:63-65, 49-51  publish_ad after __set_special_attributes: it goes
\* on to the price, or the error leaves publish_ad for the handler of
\* publish_ads
AfterSetSpecialAttributes ==
    /\ at_pc \in {"returned", "raised"}
    /\ at_pc' = IF at_pc = "returned" THEN "price" ELSE "except"
    /\ UNCHANGED <<at_attributes, at_controls, at_rest, at_done, at_missing, at_error>>
    /\ UNCHANGED exceptAttr

InitAttributes ==
    /\ at_pc = "entry"
    /\ at_attributes \in {NoneDict} \cup {Dict(m) : m \in AttributeMappings}
    /\ at_controls \in [AttributeKeys \ {"condition_s"} -> ControlKinds \cup {"absent"}]
    /\ at_rest = <<>>
    /\ at_done = <<>>
    /\ at_missing = {}
    /\ at_error = NoError
    /\ PollFindOff
    /\ RunOff
    /\ SelectOff
    /\ ShippingOff
    /\ ValidateOff
    /\ MergeOff
    /\ SleepOff

NextAttributes ==
    \/ SetSpecialAttributesEnter \/ NextAttribute \/ OpenConditionDialog \/ SelectCondition
    \/ CloseConditionDialog \/ AfterSetSpecialAttributes

SpecAttributes == InitAttributes /\ [][NextAttributes]_vars

----------------------------------------------------------------------------
(* Scraper.web_sleep *)

\* the largest bound of a pacing delay, in milliseconds
MaxMs == 6

\* secrets.randbelow(n): an int in [0, n); ValueError when n is not positive
RandBelow(n) == 0..(n - 1)
UpperBoundError == Err("ValueError", "Upper bound must be positive.", "", 0)

\* scraper.py:308  `max_ms <= min_ms and min_ms` is truthy: the `or` takes it
TakesMinimum == max_ms <= min_ms /\ min_ms # 0

\* scraper.py:308  duration = max_ms <= min_ms and min_ms or
\* secrets.randbelow(max_ms - min_ms) + min_ms
WebSleep ==
    /\ sl_pc = "entry"
    /\ IF TakesMinimum
       THEN duration' = min_ms /\ sl_pc' = "sleeping" /\ sl_error' = sl_error
       ELSE IF RandBelow(max_ms - min_ms) = {}
       THEN duration' = duration /\ sl_pc' = "raised" /\ sl_error' = UpperBoundError
       ELSE /\ \E r \in RandBelow(max_ms - min_ms) : duration' = r + min_ms
            /\ sl_pc' = "sleeping"
            /\ sl_error' = sl_error
    /\ UNCHANGED <<min_ms, max_ms>>
    /\ UNCHANGED exceptSleep

\* scraper.py:312  await self.page.sleep(duration / 1_000)
PageSleep ==
    /\ sl_pc = "sleeping"
    /\ sl_pc' = "returned"
    /\ UNCHANGED <<min_ms, max_ms, duration, sl_error>>
    /\ UNCHANGED exceptSleep

InitSleep ==
    /\ sl_pc = "entry"
    /\ min_ms \in 0..MaxMs
    /\ max_ms \in 0..MaxMs
    /\ duration = 0
    /\ sl_error = NoError
    /\ PollFindOff
    /\ RunOff
    /\ SelectOff
    /\ ShippingOff
    /\ ValidateOff
    /\ MergeOff
    /\ AttributesOff

NextSleep == WebSleep \/ PageSleep

SpecSleep == InitSleep /\ [][NextSleep]_vars

----------------------------------------------------------------------------
(* The shipping step and the special attributes step, each on its own *)

InitSteps == InitShipping \/ InitAttributes

NextSteps == NextShipping \/ NextAttributes

SpecSteps == InitSteps /\ [][NextSteps]_vars

----------------------------------------------------------------------------
(* The run and the bounded poll under fair scheduling: the single control
   flow goes on whenever it can, that is, every awaited browser call returns
   and the operator answers every challenge prompt *)

\* the ad files of these runs: a valid ad, an ad whose category depends on
\* the defaults (to_ad fails without one), and an invalid ad file
LiveAdPool == {PlainAd, RepublishedAd, BlankOptionAd}

InitLive == (Init /\ files \in SeqsUpTo(LiveAdPool, MaxAds)) \/ InitPoll

NextLive == Next \/ NextPoll

SpecLive == InitLive /\ [][NextLive]_vars /\ WF_vars(NextLive)

----------------------------------------------------------------------------
(* Properties of the publish run (Spec) *)

Ended(i) == ad_status[i] \in {"published", "failed"}
AllAds == 1..Len(ads)

\* C1: for every ad, the persist step (the ad's id set, its file rewritten)
\* ran if and only if every step of its workflow succeeded; after a failure
\* the file content is unchanged.
C1_PersistIffWorkflowSucceeded ==
    \A i \in AllAds :
        /\ ad_status[i] = "published" =>
              ads[i].id = extracted[i] /\ files[i] = ads[i]
        /\ ad_status[i] = "failed" => files[i] = ads[i]

\* C2: once the workflow extracted the ad id from the confirmation URL, the
\* ad record's id equals the extracted integer; the record's id differs from
\* the loaded one only after an extraction.
C2_IdIsExtractedId ==
    \A i \in AllAds :
        /\ extracted[i] # 0 => ads[i].id = extracted[i]
        /\ ads[i].id # files[i].id => extracted[i] # 0

C4_OneAdAtATime ==
    /\ [](\A i \in AllAds :
            ad_status[i] # "pending" =>
                /\ i <= idx
                /\ \A j \in 1..(i - 1) : Ended(j)
                /\ ad_status[i] = "running" => i = idx)
    /\ [][(steps' # steps /\ steps' # <<>>) =>
            (idx' = idx /\ ad_status[idx] = "running" /\ \A j \in 1..(idx - 1) : Ended(j))]_vars
    /\ [](tabs <= 1)

\* a step of the second ad runs after the first ad was published
C4_Witness ==
    /\ idx = 2
    /\ pc = "shipping"
    /\ steps = <<"SetTitle", "SetSpecialAttributes", "SetPrice">>
    /\ ad_status[1] = "published"

\* C5: a workflow that runs to the end executes each step once, in the
\* order SetTitle, SetCategory, SetPrice, SetShipping, SetSpecialAttributes,
\* SetDescription, UploadImages, ChallengeCheckpoint, Submit,
\* AwaitConfirmationUrl, ExtractId, PersistAd.
C5_StepOrder ==
    (pc = "close" /\ ad_status[idx] = "published") =>
        steps = <<"SetTitle", "SetCategory", "SetPrice", "SetShipping", "SetSpecialAttributes",
                  "SetDescription", "UploadImages", "ChallengeCheckpoint", "Submit",
                  "AwaitConfirmationUrl", "ExtractId", "PersistAd">>

\* the same letter, ignoring case
SameLetter(c, d) == c = d \/ {c, d} = {"a", "A"} \/ {c, d} = {"b", "B"}
\* needle occurs in hay, ignoring case
OccursIgnoringCase(needle, hay) ==
    \E k \in 0..(Len(hay) - Len(needle)) :
        \A i \in 1..Len(needle) : SameLetter(hay[k + i], needle[i])
IdentityRegion == IF login.primary.present THEN login.primary ELSE login.fallback

\* C6: the login check passes exactly when the visible identity text holds
\* the configured username, ignoring case; when it fails the run ends with
\* no ad form opened and no ad step executed.
C6_LoginCheckIsFatal ==
    /\ [](pc = "ensure_login" =>
            (login.ok <=> (IdentityRegion.present
                           /\ OccursIgnoringCase(config.username, IdentityRegion.text))))
    /\ [][(pc = "ensure_login" /\ ~login.ok) => pc' = "aborted"]_vars
    /\ []((browser /\ ~login.ok) =>
            (tabs = 0 /\ steps = <<>> /\ pc \in {"check_login", "ensure_login", "aborted"}
             /\ \A i \in AllAds : ad_status[i] = "pending"))
    /\ [][pc = "aborted" => UNCHANGED vars]_vars

\* the identity text is present and differs from the username: the run ended
C6_Witness ==
    /\ pc = "aborted"
    /\ browser
    /\ login.primary = Present(<<"b", "a">>)
    /\ ~login.ok
    /\ Len(ads) = 2
    /\ tabs = 0

----------------------------------------------------------------------------
(* Properties of web_await (SpecPoll) *)

LastCall == calls[Len(calls)]
RaisingCalls == {i \in 1..Len(calls) : calls[i].raises}
LastRaisingCall == CHOOSE i \in RaisingCalls : \A j \in RaisingCalls : j <= i

\* C7: on the success path web_await returns exactly the value of the first
\* condition() invocation that yields a truthy result; that invocation is the
\* last one made (the condition is not invoked again), and a falsy result is
\* never returned.
C7_ReturnsFirstTruthy ==
    wa_pc = "returned" =>
        /\ Len(calls) >= 1
        /\ ~LastCall.raises
        /\ result = LastCall.value
        /\ result \notin Falsy
        /\ \A i \in 1..(Len(calls) - 1) : calls[i].raises \/ calls[i].value \in Falsy

\* the condition becomes truthy on its 3rd invocation, after two falsy results
C7_Witness ==
    /\ find_op = "none"
    /\ wa_pc = "returned"
    /\ Len(calls) = 3
    /\ ~calls[1].raises /\ ~calls[2].raises
    /\ result = Element

\* C8 as claimed: at the timeout web_await raises the most recent error raised
\* by any invocation of the polling window if at least one invocation raised,
\* and the generic TimeoutError only when no invocation raised.
C8_RaisesMostRecentErrorOfWindow ==
    (find_op = "none" /\ wa_pc = "raised") =>
        IF RaisingCalls # {}
        THEN raised = calls[LastRaisingCall].error
        ELSE raised = GenericTimeoutError(timeout_error_message, timeout)

\* C8 amended: at the timeout web_await raises the error of the last
\* invocation if that invocation raised; it raises the generic TimeoutError
\* when the last invocation returned a falsy value, also when earlier
\* invocations of the window raised.
C8_RaisesErrorOfLastInvocation ==
    (find_op = "none" /\ wa_pc = "raised") =>
        /\ now - start_at > timeout
        /\ IF LastCall.raises
           THEN raised = LastCall.error
           ELSE raised = GenericTimeoutError(timeout_error_message, timeout)

\* an earlier invocation raised, the last one returned a falsy value
C8_Witness ==
    /\ find_op = "none"
    /\ wa_pc = "raised"
    /\ RaisingCalls # {}
    /\ ~LastCall.raises
    /\ raised = GenericTimeoutError(timeout_error_message, timeout)

\* C9: when every invocation of the condition raises, web_await fails, once
\* the timeout has elapsed, with the error of the last invocation and never
\* with the generic TimeoutError.
C9_AlwaysRaisingCheck ==
    (find_op = "none" /\ wa_pc \in {"returned", "raised"} /\ RaisingCalls = 1..Len(calls)) =>
        /\ wa_pc = "raised"
        /\ now - start_at > timeout
        /\ raised = LastCall.error
        /\ raised \in CheckErrors
        /\ raised # GenericTimeoutError(timeout_error_message, timeout)

\* three raising invocations, the last error differing from the first
C9_Witness ==
    /\ find_op = "none"
    /\ wa_pc = "raised"
    /\ Len(calls) = 3
    /\ RaisingCalls = 1..3
    /\ calls[1].error # calls[3].error
    /\ raised = calls[3].error

----------------------------------------------------------------------------
(* Properties of web_find / web_find_all (SpecFind) *)

NonEmptyResult ==
    /\ wa_pc = "returned"
    /\ IF find_op = "web_find" THEN result = Element ELSE result.t = "list" /\ result.n > 0

TimeoutNamingSelector ==
    /\ wa_pc = "raised"
    /\ raised.kind = "TimeoutError"
    /\ raised.selector = selector_value
    /\ raised.timeout = timeout

\* the failure was caused by the query raising, not by a missing element
QueryFailed == wa_pc = "raised" /\ Len(calls) > 0 /\ LastCall.raises /\ raised = LastCall.error

----------------------------------------------------------------------------
(* Properties of web_select (SpecSelect) *)

ValueAmongOptions == \E i \in 1..Len(sel_options) : sel_options[i] = sel_value
SelectEnded == sel_pc \in {"returned", "raised"} /\ sel_error.kind # "TimeoutError"

\* C11: web_select on a located control: when the requested value is among
\* the control's options, the first matching option becomes selected, one
\* change event is dispatched and the operation succeeds; it fails with the
\* option-not-found error if and only if the requested value is absent from
\* the options.
C11_SelectFailsIffOptionAbsent ==
    SelectEnded =>
        /\ ValueAmongOptions =>
              /\ sel_pc = "returned"
              /\ sel_options[selectedIndex + 1] = sel_value
              /\ sel_changes = 1
        /\ (sel_pc = "raised" /\ sel_error = OptionNotFound) <=> ~ValueAmongOptions

----------------------------------------------------------------------------
(* Properties of the shipping step (SpecShipping) *)

RequestedTags == IF sh_ad.shipping_options.none THEN {} ELSE Range(sh_ad.shipping_options.items)
KnownTags == {"DHL_2", "Hermes_Päckchen", "Hermes_S", "DHL_5", "Hermes_M", "DHL_10", "DHL_20",
              "DHL_31,5", "Hermes_L"}
SizeClassOf(t) ==
    CASE t \in {"DHL_2", "Hermes_Päckchen", "Hermes_S"} -> "Klein"
      [] t \in {"DHL_5", "Hermes_M"} -> "Mittel"
      [] OTHER -> "Groß"
SizeClasses == {SizeClassOf(t) : t \in RequestedTags \cap KnownTags}
MixedSizes == RequestedTags \subseteq KnownTags /\ Cardinality(SizeClasses) >= 2
HasUnknownTag == \E t \in RequestedTags : t \notin KnownTags
SameSize == RequestedTags # {} /\ RequestedTags \subseteq KnownTags /\ Cardinality(SizeClasses) = 1

SingleSizeViolation == ShErr("ValueError", "You can only specify shipping options for one package size!", <<>>)
UiUntouched == UiState(sh_radio, sh_checked) = sh_before
DialogOpened == sh_clicks = <<SelectionButton, OtherMethodsButton>>
AfterResolution == sh_pc \in {"find_radio", "continue", "packages", "apply"}
ClickedOfKind(kind) == {sh_clicks[i].label : i \in {j \in 1..Len(sh_clicks) : sh_clicks[j].kind = kind}}

\* C12 as claimed: for an ad whose tags map to two or more size classes the
\* shipping step fails with the single-package-size error before the step
\* has made any click or other UI mutation (stated for the ads that are not
\* pickup-only and the runs in which no control is missing).
C12_MixedSizesFailBeforeAnyClick ==
    (MixedSizes /\ sh_ad.shipping_type # "PICKUP" /\ sh_pc \in {"returned", "raised"}
     /\ sh_error # ShTimeout) =>
        /\ sh_pc = "raised"
        /\ sh_error = SingleSizeViolation
        /\ sh_clicks = <<>>
        /\ UiUntouched

\* C12 amended: for an ad that is not pickup-only and whose tags are all
\* known and map to two or more size classes, the step first makes the two
\* clicks that open the shipping dialog (a TimeoutError if one of these
\* controls is missing); the resolution of the options then fails with the
\* single-package-size error before it makes any click or UI mutation of its
\* own: the step never gets past the resolution, no other control is clicked
\* and the selection state is the one before the step. A pickup-only ad's
\* options are not resolved.
C12_MixedSizesFailResolution ==
    MixedSizes =>
        /\ ~AfterResolution /\ sh_pc # "fallback"
        /\ sh_pc = "returned" => sh_ad.shipping_type = "PICKUP" /\ sh_error = NoShErr
        /\ sh_pc = "raised" =>
              /\ sh_ad.shipping_type # "PICKUP"
              /\ UiUntouched
              /\ \/ sh_error = SingleSizeViolation /\ DialogOpened
                 \/ sh_error = ShTimeout /\ sh_clicks \in {<<>>, <<SelectionButton>>}

\* DHL_2 (Klein) and DHL_10 (Groß): the dialog was opened, the resolution failed
C12_Witness ==
    /\ sh_pc = "raised"
    /\ RequestedTags = {"DHL_2", "DHL_10"}
    /\ sh_error = SingleSizeViolation
    /\ DialogOpened
    /\ sh_before.checked # {}

\* C13: if any requested tag is not a key of the mapping table, the
\* resolution of the options fails with the unknown-option error naming the
\* requested tags and nothing is applied: the step never gets past the
\* resolution, no size-class radio and no package control is clicked and the
\* selection state is unchanged, also when the other tags are valid.
C13_UnknownTagFailsResolution ==
    /\ [][(sh_pc = "resolve" /\ HasUnknownTag) =>
            /\ sh_pc' = "raised"
            /\ sh_error'.kind = "KeyError"
            /\ sh_error'.options = sh_ad.shipping_options.items
            /\ sh_clicks' = sh_clicks]_vars
    /\ [](HasUnknownTag =>
            /\ ~AfterResolution
            /\ UiUntouched
            /\ ClickedOfKind("package") = {}
            /\ ClickedOfKind("radio") \subseteq {"Nur Abholung"}
            /\ (sh_pc = "raised" /\ DialogOpened) => sh_error.kind = "KeyError")

\* FooBar next to the valid DHL_2
C13_Witness ==
    /\ sh_pc = "raised"
    /\ sh_ad.shipping_options.items = <<"DHL_2", "FooBar">>
    /\ sh_error = ShErr("KeyError", "Unknown shipping option(s), please refer to the documentation/README",
                        <<"DHL_2", "FooBar">>)
    /\ DialogOpened

\* the image of the requested tags under the mapping table
ImageOfTags ==
    {CASE t = "DHL_2" -> "Paket 2 kg" [] t = "Hermes_Päckchen" -> "Päckchen" [] t = "Hermes_S" -> "S-Paket"
       [] t = "DHL_5" -> "Paket 5 kg" [] t = "Hermes_M" -> "M-Paket" [] t = "DHL_10" -> "Paket 10 kg"
       [] t = "DHL_20" -> "Paket 20 kg" [] t = "DHL_31,5" -> "Paket 31,5 kg" [] t = "Hermes_L" -> "L-Paket"
     : t \in RequestedTags}
ResolvedAsRequested ==
    /\ sh_error = NoShErr
    /\ SizeClasses = {shipping_size}
    /\ Range(shipping_packages) = ImageOfTags
    /\ Len(shipping_packages) = Cardinality(RequestedTags)

\* C14: for every non-empty set of known tags of one size class the
\* resolution succeeds with that size class and with the packages the table
\* gives for the tags, each once ({DHL_2, Hermes_S}: Klein with Paket 2 kg
\* and S-Paket), whatever the order and the duplication of the tags in the ad.
C14_SameSizeResolves ==
    /\ [][(sh_pc = "resolve" /\ SameSize) => sh_pc' = "find_radio"]_vars
    /\ []((SameSize /\ AfterResolution) => ResolvedAsRequested)
    /\ []((AfterResolution /\ RequestedTags = {"DHL_2", "Hermes_S"}) =>
            (shipping_size = "Klein" /\ Range(shipping_packages) = {"Paket 2 kg", "S-Paket"}))

\* Hermes_S before DHL_2, DHL_2 twice
C14_Witness ==
    /\ sh_pc = "find_radio"
    /\ sh_ad.shipping_options.items = <<"Hermes_S", "DHL_2", "DHL_2">>
    /\ shipping_size = "Klein"
    /\ Range(shipping_packages) = {"Paket 2 kg", "S-Paket"}
    /\ Len(shipping_packages) = 2

UnwantedOfSize == PackagesOfSize(shipping_size) \ Range(shipping_packages)

\* C20: when the size-class radio is already selected, the package controls
\* clicked are exactly the packages of that size class that are not
\* requested, no requested package is clicked, and after the step every
\* unwanted package of the size class is unchecked, whatever the packages'
\* checked state before the step (stated for the runs in which every control
\* is found).
C20_UnwantedPackagesUnchecked ==
    (sh_pc = "returned" /\ shipping_size # "None" /\ sh_before.radio = shipping_size
     /\ sh_missed = {} /\ ContinueButton \in Range(sh_clicks)) =>
        /\ ClickedOfKind("package") = UnwantedOfSize
        /\ ClickedOfKind("package") \cap Range(shipping_packages) = {}
        /\ sh_checked \cap UnwantedOfSize = {}

----------------------------------------------------------------------------
(* Further properties of the publish run (Spec) *)

RECURSIVE DecimalNumber(_)
\* the number a string of decimal digits denotes, most significant digit first
DecimalNumber(digits) ==
    IF digits = <<>> THEN 0
    ELSE LET RECURSIVE TenTo(_)
             TenTo(k) == IF k = 0 THEN 1 ELSE 10 * TenTo(k - 1)
             d == CHOOSE n \in 0..9 : <<"0", "1", "2", "3", "4", "5", "6", "7", "8", "9">>[n + 1] = Head(digits)
         IN  d * TenTo(Len(digits) - 1) + DecimalNumber(Tail(digits))

\* C16: when the confirmation URL carries adId=N the extracted id is the
\* integer N (adId=4711 gives 4711); when the page URL never carries the adId
\* parameter (the confirmation never appears, or its adId is blank) the ad's
\* workflow fails and no id is produced.
C16_AdIdExtraction ==
    /\ [](pc = "return" =>
            /\ url.confirmation /\ url.adId # <<>>
            /\ ad_id = DecimalNumber(url.adId)
            /\ extracted[idx] = ad_id
            /\ url.adId = <<"4", "7", "1", "1">> => ad_id = 4711)
    /\ [][(pc = "await_url" /\ ~url'.confirmation) => pc' = "except"]_vars
    /\ [][(pc = "extract" /\ url.adId = <<>>) => pc' = "except"]_vars
    /\ [](pc = "except" => (ad_id = 0 /\ extracted[idx] = 0))
    /\ [](\A i \in AllAds : ad_status[i] = "failed" => extracted[i] = 0)

\* the confirmation URL of the second ad carried adId=4711
C16_Witness ==
    /\ pc = "return"
    /\ idx = 2
    /\ url = ConfirmationUrl(<<"4", "7", "1", "1">>)
    /\ ad_id = 4711
    /\ extracted[2] = 4711

\* C18: whenever an ad of the list fails validation, the validation of the
\* complete Ad built by to_ad included, no browser session has been created,
\* no page has been opened and no ad is published.
C18_ValidationBeforeBrowser ==
    error.kind = "ValidationError" =>
        /\ ~browser
        /\ tabs = 0
        /\ \A i \in AllAds : ad_status[i] \in {"pending", "failed"}

----------------------------------------------------------------------------
(* Properties of the validation of an ad file (SpecValidate) *)

PriceIsNull == document.price \in {Missing, Null}
PriceTypeIs(l) == document.price_type = StrValue(l)
\* the rest of the document is valid, a price that is given is an integer
OtherwiseValid ==
    /\ document.title = Title(10)
    /\ document.shipping_type \in {Missing, StrValue("PICKUP")}
    /\ PriceIsNull \/ document.price.t = "int"

\* C17: over all combinations of price_type and price (null or not):
\* GIVE_AWAY with a non-null price is rejected, FIXED with a null price is
\* rejected, GIVE_AWAY with a null price and FIXED with a non-null price are
\* accepted (the rest of the document being valid).
C17_PriceRule ==
    (v_pc \in {"accepted", "rejected"} /\ OtherwiseValid) =>
        /\ (PriceTypeIs("GIVE_AWAY") /\ ~PriceIsNull) => v_pc = "rejected"
        /\ (PriceTypeIs("FIXED") /\ PriceIsNull) => v_pc = "rejected"
        /\ (PriceTypeIs("GIVE_AWAY") /\ PriceIsNull) => v_pc = "accepted"
        /\ (PriceTypeIs("FIXED") /\ ~PriceIsNull) => v_pc = "accepted"

----------------------------------------------------------------------------
(* Properties of apply_defaults (SpecMerge) *)

\* C19: apply_defaults is idempotent: for every target and defaults mapping
\* (nested mappings, null, empty string and list values included) and fixed
\* ignore and override predicates, merging the defaults a second time into
\* the result of the first merge succeeds and leaves it unchanged.
C19_ApplyDefaultsIdempotent ==
    /\ [][m_pc = "once" => m_pc' = "twice"]_vars
    /\ [](m_pc = "twice" => (~m_twice.raises /\ m_twice.items = m_once.items))

\* the first merge filled a nested null and added a key
C19_Witness ==
    /\ m_pc = "twice"
    /\ m_override = "none_or_empty"
    /\ m_target = <<<<"a", MDict(<<<<"k", MDict(<<<<"k", MNone>>>>)>>>>)>>>>
    /\ m_defaults = <<<<"a", MDict(<<<<"k", MDict(<<<<"k", MStr("x")>>, <<"description", MNone>>>>)>>>>)>>,
                      <<"description", MList(<<"y">>)>>>>
    /\ m_once.items # m_target
    /\ m_twice = m_once

----------------------------------------------------------------------------
(* Further properties of the shipping step (SpecShipping) *)

\* the clicks of __set_shipping_options, after the two that open the dialog
ResolutionClicks == SubSeq(sh_clicks, 3, Len(sh_clicks))
PositionsOf(clicks, control) == {i \in 1..Len(clicks) : clicks[i] = control}
PackagePositions(clicks) == {i \in 1..Len(clicks) : clicks[i].kind = "package"}
RadioWasUnselected == shipping_size # "None" /\ sh_before.radio # shipping_size
StepReturned == sh_pc \in {"returned", "description"}
RequestedPackageControls == [i \in 1..Len(shipping_packages) |-> PackageControl(shipping_packages[i])]

\* C21: shipping resolution when the size-class radio is not yet selected:
\* the clicks occur in the order size-class radio, continue control, each
\* requested package exactly once, apply control; no control is clicked
\* twice, a package is clicked only after the continue control and that only
\* after the radio; the apply control is clicked last and exactly once. With
\* every control found the clicks are exactly this sequence.
C21_ClickOrderWhenRadioUnselected ==
    RadioWasUnselected =>
        LET clicks == ResolutionClicks
            radio == PositionsOf(clicks, SizeRadio(shipping_size))
            continue == PositionsOf(clicks, ContinueButton)
            packages == PackagePositions(clicks)
            apply == PositionsOf(clicks, ApplyButton)
        IN  /\ DOMAIN clicks = radio \cup continue \cup packages \cup apply
            /\ Cardinality(radio) <= 1 /\ Cardinality(continue) <= 1 /\ Cardinality(apply) <= 1
            /\ \A i \in packages, j \in packages : clicks[i] = clicks[j] => i = j
            /\ \A i \in packages : clicks[i].label \in ImageOfTags
            /\ \A i \in radio : i = 1
            /\ \A i \in continue : i = 2 /\ radio = {1}
            /\ \A i \in packages : continue = {2} /\ i > 2
            /\ \A i \in apply : i = Len(clicks)
            /\ StepReturned <=> apply = {Len(clicks)}
            /\ (StepReturned /\ continue # {} /\ sh_missed = {}) =>
                  /\ clicks = <<SizeRadio(shipping_size), ContinueButton>>
                                \o RequestedPackageControls \o <<ApplyButton>>
                  /\ {clicks[i].label : i \in packages} = ImageOfTags
                  /\ Cardinality(packages) = Cardinality(RequestedTags)

\* Hermes_S and DHL_2 with no radio selected: radio, continue, both packages, apply
C21_Witness ==
    /\ sh_pc = "returned"
    /\ sh_before.radio = "None"
    /\ sh_ad.shipping_options.items = <<"Hermes_S", "DHL_2", "DHL_2">>
    /\ sh_clicks = <<SelectionButton, OtherMethodsButton, SizeRadio("Klein"), ContinueButton,
                     PackageControl("S-Paket"), PackageControl("Paket 2 kg"), ApplyButton>>

\* the packages the loop of publish.py:264 is to click
PackagesToClick == IF RadioWasUnselected THEN Range(shipping_packages) ELSE UnwantedOfSize
PackageLoopOver == sh_pc \in {"apply", "returned", "raised", "description", "except"}

\* C22: in shipping resolution a package control that cannot be found does
\* not abort the ad and the remaining packages are still attempted (the loop
\* goes on with the next package, no error is raised for it, and at the end
\* every package to click was clicked or found missing); when the dialog's
\* apply control cannot be clicked the step raises the close-dialog error,
\* the ad's workflow leaves publish_ad for the handler and the description
\* step (and with it every later step) is not reached.
C22_MissingPackageToleratedApplyFatal ==
    /\ [][(sh_pc = "packages" /\ sh_missed' # sh_missed) =>
            /\ to_be_clicked' = Tail(to_be_clicked)
            /\ sh_pc' = (IF to_be_clicked' = <<>> THEN "apply" ELSE "packages")
            /\ sh_error' = NoShErr]_vars
    /\ []((ContinueButton \in Range(sh_clicks) /\ PackageLoopOver) =>
            (ClickedOfKind("package") \cup sh_missed = PackagesToClick))
    /\ [][(sh_pc = "apply" /\ sh_clicks' = sh_clicks) =>
            (sh_pc' = "raised" /\ sh_error' = ShDialogError)]_vars
    /\ [][sh_pc = "raised" => sh_pc' = "except"]_vars
    /\ [][sh_pc = "except" => UNCHANGED vars]_vars
    /\ [](sh_pc = "description" =>
            /\ sh_error = NoShErr
            /\ shipping_size # "None" => sh_clicks[Len(sh_clicks)] = ApplyButton)

\* the S-Paket control was missing, the next package was clicked all the
\* same; then the apply control could not be clicked and the ad failed
C22_Witness ==
    /\ sh_pc = "except"
    /\ sh_error = ShDialogError
    /\ shipping_packages = <<"S-Paket", "Paket 2 kg">>
    /\ sh_missed = {"S-Paket"}
    /\ sh_clicks[Len(sh_clicks)] = PackageControl("Paket 2 kg")

----------------------------------------------------------------------------
(* Properties of the special attributes step (SpecAttributes) *)

AttributesEnded == at_pc \in {"returned", "raised", "price", "except"}
AttributesFailed == at_pc \in {"raised", "except"}
FinishedItems == SubSeq(at_attributes.items, 1, Len(at_attributes.items) - Len(at_rest))
InteractionsOn(key) == SelectSeq(at_done, LAMBDA done : done[1] = key)
\* the error of publish.py:171 for a control that is not found
AttributeNotFound(key) == Err("TimeoutError", "Failed to set special attribute (not found)", key, 0)

\* C25: SetSpecialAttributes, for every key other than the reserved
\* condition key: when a form control whose name contains the key exists,
\* exactly one interaction matching its kind is applied and the workflow goes
\* on to the next attribute; when no such control is found, the ad fails
\* with an error naming the key.
C25_EachAttributeSetOrFatal ==
    AttributesEnded =>
        /\ \A i \in 1..Len(FinishedItems) :
              LET key == FinishedItems[i][1]
              IN  key # "condition_s" =>
                      /\ at_controls[key] \in ControlKinds
                      /\ InteractionsOn(key) = <<<<key, Control(at_controls[key], key)>>>>
        /\ (AttributesFailed /\ Head(at_rest)[1] # "condition_s") =>
              /\ at_controls[Head(at_rest)[1]] = "absent"
              /\ at_error = AttributeNotFound(Head(at_rest)[1])

----------------------------------------------------------------------------
(* Properties of the steps' timeouts (SpecSteps) *)

ShippingEnded == sh_pc \in {"returned", "raised", "description", "except"}
ShippingFailed == sh_pc \in {"raised", "except"}
\* the size-class radio or the continue control was not found: the options
\* were resolved and the loop over the packages was not reached
RadioOrContinueMissing ==
    shipping_size # "None" /\ PackageLoopOver /\ ContinueButton \notin Range(sh_clicks)
ConditionDialogMissing == <<"condition_s", ConditionDialogButton>> \in at_missing

\* C23 as claimed: an interaction timeout without a documented fallback or
\* tolerance aborts the current ad: when the size-class radio or the
\* continue control of the requested shipping options, or the condition
\* dialog of a requested condition attribute, cannot be found within the
\* timeout, the ad's workflow fails (with the TimeoutError) and does not
\* reach the later steps.
C23_UndocumentedTimeoutAborts ==
    /\ (RadioOrContinueMissing /\ ShippingEnded) =>
          (ShippingFailed /\ sh_error.kind = "TimeoutError")
    /\ (ConditionDialogMissing /\ AttributesEnded) =>
          (AttributesFailed /\ at_error.kind = "TimeoutError")

\* C23 amended: the timeout of the size-class radio or of the continue
\* control is caught inside the shipping step, which goes on to the apply
\* control without clicking a package; the ad then fails only if the apply
\* control cannot be clicked (close-dialog error), otherwise the step
\* returns and the workflow goes on. When the condition dialog cannot be
\* opened the condition is given up without an error and the loop goes on
\* with the next attribute; of the condition's controls only the accept
\* button's timeout fails the ad.
C23_TimeoutsCaughtInsideTheStep ==
    /\ [][sh_pc = "find_radio" => (sh_pc' \in {"continue", "apply"} /\ sh_error' = NoShErr)]_vars
    /\ [][(sh_pc = "continue" /\ sh_clicks' = sh_clicks) =>
            (sh_pc' = "apply" /\ sh_error' = NoShErr)]_vars
    /\ [](RadioOrContinueMissing =>
            /\ ClickedOfKind("package") = {}
            /\ ShippingFailed => sh_error = ShDialogError
            /\ StepReturned => sh_clicks[Len(sh_clicks)] = ApplyButton)
    /\ [][(at_pc = "condition_open" /\ at_missing' # at_missing) =>
            /\ at_pc' = "loop"
            /\ at_rest' = Tail(at_rest)
            /\ at_done' = at_done
            /\ at_error' = NoError]_vars
    /\ []((AttributesFailed /\ at_error.kind = "TimeoutError") =>
            /\ at_error = ConditionDialogError
            /\ <<"condition_s", ConditionAcceptButton>> \in at_missing
            /\ Head(at_rest)[1] = "condition_s")
    /\ []((ConditionDialogMissing /\ at_pc = "price") => at_error = NoError)

\* the size-class radio was not found: the apply control was clicked and
\* publish_ad went on to the description
C23_Witness ==
    /\ sh_pc = "description"
    /\ shipping_size = "Klein"
    /\ sh_clicks = <<SelectionButton, OtherMethodsButton, ApplyButton>>
    /\ sh_error = NoShErr

\* the ad is not pickup-only and has no shipping options
NoPickupNoOptions ==
    /\ sh_ad.shipping_type # "PICKUP"
    /\ sh_ad.shipping_options.none \/ sh_ad.shipping_options.items = <<>>

\* C24: SetShipping for an ad that is not pickup-only and has no shipping
\* options: a commercial-account selector that is present (displayed) is set
\* and no cost is entered; when the selector is absent from the page the
\* step goes on to the custom shipping cost: with a cost configured it makes
\* the interactions that enter it, with none it completes without an error
\* and without an interaction; the absence of the selector fails the ad in
\* no case (only a control of the cost dialog can).
C24_AbsentSelectorFallsThrough ==
    (sh_pc # "off" /\ NoPickupNoOptions /\ ShippingEnded) =>
        /\ (sh_selector = "displayed" /\ StepReturned) => sh_clicks = <<ShippingSelector>>
        /\ sh_selector = "absent" =>
              /\ sh_ad.shipping_costs = "None" => (StepReturned /\ sh_clicks = <<>>)
              /\ (sh_ad.shipping_costs # "None" /\ StepReturned) => sh_clicks = CostsInteractions
              /\ ShippingFailed => sh_error = ShDialogError

----------------------------------------------------------------------------
(* Properties of the category and of the submit (Spec) *)

\* C26: SetCategory: when the ad supplies a category value, the workflow
\* navigates to the category-change deep link for that category and confirms
\* it: the workflow of an ad with a category does not get to the price
\* without the SetCategory step.
C26_SuppliedCategoryIsSet ==
    (pc \notin {"off", "start"} /\ ad.category # "None" /\ "SetPrice" \in Range(steps)) =>
        "SetCategory" \in Range(steps)

LookedUp(control, found) == <<control, found>> \in Range(submit_lookups)

\* C27: Submit: when the primary submit control is found it is clicked and
\* the alternate control is not looked up; when it is not found, the
\* alternate control of the confirmation fieldset is the next one looked up
\* and, once clicked, the imprint-guidance confirmation; the absence of the
\* imprint-guidance confirmation does not fail the ad: the workflow goes on
\* to await the confirmation URL.
C27_SubmitFallback ==
    /\ LookedUp(PrimarySubmit, TRUE) => submit_lookups = <<<<PrimarySubmit, TRUE>>>>
    /\ (LookedUp(PrimarySubmit, FALSE) /\ pc # "alternate") =>
          (Len(submit_lookups) >= 2 /\ submit_lookups[2][1] = AlternateSubmit)
    /\ (LookedUp(AlternateSubmit, TRUE) /\ pc # "imprint_guidance") =>
          (Len(submit_lookups) = 3 /\ submit_lookups[3][1] = ImprintGuidance)
    /\ LookedUp(ImprintGuidance, FALSE) =>
          (pc = "await_url" \/ "AwaitConfirmationUrl" \in Range(steps))

----------------------------------------------------------------------------
(* Further properties of apply_defaults (SpecMerge) *)

KeysOf(items) == {items[i][1] : i \in 1..Len(items)}
ValueOf(items, key) == items[IndexOf(items, key)][2]

\* the values the claim lets a default replace, per override predicate
ClaimedReplaceable(override) ==
    CASE override = "never" -> {}
      [] override = "empty" -> {MStr("")}
      [] override = "none_or_empty" -> {MNone, MStr("")}

RECURSIVE MergedAsClaimed(_, _, _)
MergedAsClaimed(merged, target, defaults) ==
    LET added == {k \in KeysOf(defaults) \ KeysOf(target) :
                     ~Ignore(m_ignore, k, ValueOf(defaults, k))}
    IN  /\ KeysOf(merged) = KeysOf(target) \cup added
        /\ \A k \in added : ValueOf(merged, k) = ValueOf(defaults, k)
        /\ \A k \in KeysOf(target) :
              LET own == ValueOf(target, k)
                  value == ValueOf(merged, k)
              IN  IF k \notin KeysOf(defaults) THEN value = own
                  ELSE LET default_value == ValueOf(defaults, k)
                       IN  IF own.t = "dict" /\ default_value.t = "dict"
                           THEN /\ value.t = "dict"
                                /\ MergedAsClaimed(value.items, own.items, default_value.items)
                           ELSE IF own \in ClaimedReplaceable(m_override)
                           THEN value = default_value
                           ELSE value = own

\* C28: merging an ad with the ad defaults (to_ad's predicates) succeeds and
\* every field of the result is the ad's own value when that value is
\* present and neither null nor the empty string, and the default's value
\* otherwise; a list value of the target, the empty list included, is kept
\* as it is; nested mappings are merged key by key; and with no override
\* predicate a key present in the target keeps its value (if it is not a
\* mapping merged with a mapping), the empty string included.
C28_MergeFieldByField ==
    m_pc \in {"once", "twice", "raised"} =>
        /\ ~m_once.raises
        /\ MergedAsClaimed(m_once.items, m_target, m_defaults)
        /\ \A k \in KeysOf(m_target) :
              ValueOf(m_target, k).t = "list" => ValueOf(m_once.items, k) = ValueOf(m_target, k)
        /\ m_override = "never" =>
              \A k \in KeysOf(m_target) :
                  \/ ValueOf(m_once.items, k) = ValueOf(m_target, k)
                  \/ /\ ValueOf(m_target, k).t = "dict"
                     /\ k \in KeysOf(m_defaults)
                     /\ ValueOf(m_defaults, k).t = "dict"

----------------------------------------------------------------------------
(* Properties of web_sleep (SpecSleep) *)

\* C29: web_sleep(min_ms, max_ms) never fails, and its delay d satisfies
\* min_ms <= d < max_ms when min_ms < max_ms and is exactly min_ms when
\* max_ms <= min_ms, the case min_ms = 0 included.
C29_PacingDelayInBounds ==
    /\ sl_pc # "raised"
    /\ sl_pc \in {"sleeping", "returned"} =>
          IF min_ms < max_ms
          THEN min_ms <= duration /\ duration < max_ms
          ELSE duration = min_ms

----------------------------------------------------------------------------
(* Termination (SpecLive) *)

RunEnded == pc \in {"done", "aborted"}
AllAdsEnded == \A i \in AllAds : Ended(i)
PollEnded == wa_pc \in {"returned", "raised"}

\* C30 as stated: every wait other than the challenge checkpoint is bounded:
\* every bounded poll ends, and for any finite ad list every ad's workflow
\* eventually ends (succeeded or failed) and the run eventually reaches Done.
C30_EveryRunReachesDone ==
    /\ (wa_pc = "entry") ~> PollEnded
    /\ (pc = "start") ~> (pc = "done" /\ Len(ad_status) = Len(files) /\ AllAdsEnded)

\* C30: every bounded poll ends and every run ends; a run that gets to the
\* ad loop (the ad files are valid, the browser session is created and the
\* login check passes) reaches Done with every ad's workflow ended
\* (succeeded or failed), each started workflow ending in its turn; a run
\* that fails before the loop ends with that error and starts no workflow.
C30_StartedRunReachesDone ==
    /\ (wa_pc = "entry") ~> PollEnded
    /\ (pc = "start") ~> RunEnded
    /\ (pc = "loop") ~> (pc = "done" /\ AllAdsEnded)
    /\ \A i \in 1..MaxAds : (pc = "to_ad" /\ idx = i) ~> (pc = "loop" /\ idx = i + 1 /\ Ended(i))
    /\ [](pc = "aborted" => (error # NoError /\ \A i \in AllAds : ad_status[i] = "pending"))

\* a run of two ads, the first published after the operator's confirmation
\* was awaited or not, the second failed, is over
C30_Witness ==
    /\ pc = "done"
    /\ Len(ads) >= 2
    /\ ad_status[1] = "published"
    /\ ad_status[2] = "failed"

----------------------------------------------------------------------------
(* Properties of to_ad in the run (Spec) *)

\* the position is after to_ad and before the tab is closed
InWorkflow == pc \notin {"off", "start", "session", "check_login", "ensure_login", "loop", "to_ad",
                         "done", "aborted"}
ToAdFailed == pc = "except" /\ steps = <<>>
ToAdPassed == pc = "title" \/ steps # <<>>

\* the ad's scalar fields after the merge are those of a complete Ad
CompleteApartFromAttributes(partial, defaults) ==
    AdIsValid([partial EXCEPT !.price_type = MergeScalar(@, defaults.price_type),
                              !.shipping_type = MergeScalar(@, defaults.shipping_type),
                              !.category = MergeScalar(@, defaults.category)])

\* C31: merging an ad with the defaults never fails because of the shape of
\* a valid value: to_ad fails only with the ValidationError of an incomplete
\* Ad; in particular an ad whose special_attributes is a non-empty mapping,
\* merged with defaults whose special_attributes is null, and complete in
\* its other fields, gets to the publish steps with the mapping it had.
C31_MergeNeverFailsOnShape ==
    (InWorkflow /\ idx \in AllAds) =>
        /\ ToAdFailed => error.kind = "ValidationError"
        /\ LET own == ads[idx].special_attributes
           IN  ( /\ ~own.none
                 /\ own.items # <<>>
                 /\ config.defaults.special_attributes.none
                 /\ CompleteApartFromAttributes(ads[idx], config.defaults) ) =>
                   (ToAdPassed /\ ad.special_attributes = own)

----------------------------------------------------------------------------
(* Properties of the ad-form tabs (Spec) *)

BetweenAds == pc \in {"start", "session", "check_login", "ensure_login", "loop", "done", "aborted"}

\* C32: at every moment of a run at most one ad-form tab is open: none
\* before the first ad, between two ads and after the run, one while an
\* ad's workflow runs; the tab of an ad is closed when the ad's workflow
\* has ended, published or failed, and only then is the next tab opened.
C32_OneTabClosedPerAd ==
    /\ [](pc # "off" => /\ tabs \in {0, 1}
                        /\ BetweenAds => tabs = 0
                        /\ ~BetweenAds => tabs = 1)
    /\ [][pc = "close" => (Ended(idx) /\ tabs' = 0 /\ pc' = "loop")]_vars
    /\ [][(pc # "off" /\ tabs' > tabs) => (pc = "loop" /\ tabs = 0 /\ \A i \in 1..(idx - 1) : Ended(i))]_vars

\* a failed ad's tab and a published ad's tab were closed in turn
C32_Witness ==
    /\ pc = "done"
    /\ tabs = 0
    /\ Len(ads) >= 2
    /\ ad_status[1] = "failed"
    /\ ad_status[2] = "published"

----------------------------------------------------------------------------
(* Further properties of web_await (SpecPoll) *)

YieldsTruthy(outcome) == ~outcome.raises /\ IsTruthy(outcome.value)

\* C33: web_await invokes its check at least once whatever the timeout
\* (zero included); it raises only directly after a check invocation that
\* did not yield a truthy value; and an invocation that yields a truthy
\* value makes the poll return that value, also when the invocation
\* started after the deadline.
C33_CheckedAtLeastOnce ==
    /\ [](PollEnded => Len(calls) >= 1)
    /\ [](wa_pc = "raised" => ~YieldsTruthy(LastCall))
    /\ [][wa_pc' = "raised" => (wa_pc = "loop" /\ calls' # calls /\ Len(calls') = Len(calls) + 1)]_vars
    /\ []((Len(calls) >= 1 /\ YieldsTruthy(LastCall)) => (wa_pc = "returned" /\ result = LastCall.value))

\* timeout 0: the second invocation starts a sleep after the first, past
\* the deadline, and its truthy value is returned
C33_Witness ==
    /\ wa_pc = "returned"
    /\ timeout = 0
    /\ Len(calls) = 2
    /\ now - start_at > timeout
    /\ YieldsTruthy(LastCall)

----------------------------------------------------------------------------
(* Further properties of the login check (Spec) *)

NamedIn(region) == region.present /\ OccursIgnoringCase(config.username, region.text)
PrimaryLacksName == login.primary.present /\ ~NamedIn(login.primary)

\* C34: the login check consults the fallback identity region only when the
\* primary region cannot be located: with the primary region present the
\* result is decided by the primary region's text alone, so the check fails
\* (and the run ends) when that text lacks the username even if the
\* fallback region holds it; with the primary region absent the result is
\* decided by the fallback region.
C34_FallbackOnlyWhenPrimaryAbsent ==
    /\ []((pc = "ensure_login" /\ login.primary.present) => (login.ok <=> NamedIn(login.primary)))
    /\ []((pc = "ensure_login" /\ PrimaryLacksName /\ NamedIn(login.fallback)) => ~login.ok)
    /\ [][(pc = "ensure_login" /\ PrimaryLacksName /\ NamedIn(login.fallback)) => pc' = "aborted"]_vars
    /\ []((pc = "ensure_login" /\ ~login.primary.present) => (login.ok <=> NamedIn(login.fallback)))

\* the primary region shows another text, the fallback region the username:
\* the check failed and the run ended
C34_Witness ==
    /\ pc = "aborted"
    /\ browser
    /\ PrimaryLacksName
    /\ NamedIn(login.fallback)
    /\ ~login.ok
    /\ error.kind = "AssertionError"

====
